---- MODULE Spec2Model ----
(***************************************************************************)
(* Match analytics engine of segunda-division-streamlit                    *)
(* (src/data_processing.py): match extraction, goal-sequence analysis and  *)
(* the standings aggregator with its reference-resolution pass; and the   *)
(* data service that feeds it: the retry loop of the HTTP client           *)
(* (src/stats_perform_client.py), the download of the season into one      *)
(* consolidated file (src/download_all_matches.py) and its automatic       *)
(* update (src/update_utils.py).                                           *)
(*                                                                         *)
(* Python values are modelled as follows.                                  *)
(*   None (string-valued field)  the string None                           *)
(*   None (missing record)       the record NoResult                       *)
(*   a dict / list / tuple       a record / a sequence                     *)
(*   a falsy optional argument   the empty sequence (None, [] and () are   *)
(*                               only ever tested for truthiness)          *)
(*   a DataFrame                 [kind, rows]; kind "KeyError" is the      *)
(*                               exception pandas raises when sort_values  *)
(*                               is asked for a column of a frame that has *)
(*                               no columns                                *)
(***************************************************************************)
EXTENDS Integers, Sequences, FiniteSets, TLC

VARIABLES data, op, args, match_result, goal_flags, top_teams_list, standings,
          player_match_records, filtered_stats, df_player, player_minutes,
          team_segments, end_time,
          max_retries, use_oauth, token_valid, request_pc, attempt, delay,
          last_exc, raised, resp, tried,
          output_file, match_cache, requested, download_result,
          schedule_fetched, update_result

vars == <<data, op, args, match_result, goal_flags, top_teams_list, standings,
          player_match_records, filtered_stats, df_player, player_minutes,
          team_segments, end_time,
          max_retries, use_oauth, token_valid, request_pc, attempt, delay,
          last_exc, raised, resp, tried,
          output_file, match_cache, requested, download_result,
          schedule_fetched, update_result>>

\* what the entry points over a corpus return
analytics == <<match_result, goal_flags, top_teams_list, standings,
               player_match_records, filtered_stats, df_player, player_minutes>>

\* what the entry points over one match document return
perMatch == <<team_segments, end_time>>

\* a StatsPerformClient and the call of _request it is serving
client == <<max_retries, use_oauth, token_valid, request_pc, attempt, delay,
            last_exc, raised, resp, tried>>

\* the consolidated file, the cache directory and what the last download and
\* the last automatic update did
store == <<output_file, match_cache, requested, download_result,
           schedule_fetched, update_result>>

\* the data service next to the analytics engine
service == <<client, store>>

-----------------------------------------------------------------------------
(* Bounds of the model *)

\* longest corpus (number of match documents under data['matches'])
MaxMatches == 2

\* largest number of goals in one match of a standings corpus, and the
\* largest score of one side in the goal-analysis corpus
MaxGoals == 2

\* longest goal list of a match of the goal-analysis corpus and of the
\* player-index corpus
MaxGoalEvents == 3

\* longest substitution list of a match of the segment corpus
MaxSubs == 2

-----------------------------------------------------------------------------
(* Python values *)

None == "None"

NoResult == [none |-> TRUE]

Teams == {"A", "B", "C"}

TeamId == ("A" :> "idA") @@ ("B" :> "idB") @@ ("C" :> "idC")

\* the two players a team lists, its starter first, and their player ids
Squad == ("A" :> <<"A1", "A2">>) @@ ("B" :> <<"B1", "B2">>)
         @@ ("C" :> <<"C1", "C2">>)

PlayerId == ("A1" :> "pA1") @@ ("A2" :> "pA2") @@ ("B1" :> "pB1")
            @@ ("B2" :> "pB2") @@ ("C1" :> "pC1") @@ ("C2" :> "pC2")

Manager == ("A" :> "MA") @@ ("B" :> "MB") @@ ("C" :> "MC")

\* the league calendar: the home and away side of the k-th match document
Schedule == << <<"A", "B">>, <<"C", "A">>, <<"B", "C">>, <<"B", "A">>,
               <<"A", "C">>, <<"C", "B">> >>

-----------------------------------------------------------------------------
(* extract_match_result *)

\* the loop over the contestants: a later entry with the same position tag
\* overwrites an earlier one
RECURSIVE ResolveContestants(_, _)
ResolveContestants(contestants, acc) ==
    IF contestants = <<>> THEN acc
    ELSE LET contestant == Head(contestants)
             next == IF contestant.position = "home"
                        THEN [acc EXCEPT !.home_team = contestant.name,
                                         !.home_id = contestant.id]
                     ELSE IF contestant.position = "away"
                        THEN [acc EXCEPT !.away_team = contestant.name,
                                         !.away_id = contestant.id]
                     ELSE acc
         IN ResolveContestants(Tail(contestants), next)

\* extract_match_result without the test of the match status
extract_match_resultAnyStatus(match) ==
    IF ~match.matchInfo THEN NoResult
    ELSE
    LET c == ResolveContestants(match.contestant,
                 [home_team |-> None, home_id |-> None,
                  away_team |-> None, away_id |-> None])
    IN  IF ~match.liveData \/ ~match.matchDetails THEN NoResult
        ELSE
        LET home_goals == IF match.scores.present THEN match.scores.home ELSE 0
            away_goals == IF match.scores.present THEN match.scores.away ELSE 0
            winner == IF home_goals > away_goals THEN "home"
                      ELSE IF away_goals > home_goals THEN "away"
                      ELSE "draw"
        IN  [match_id |-> match.id,
             date |-> match.date,
             home_team |-> c.home_team,
             home_id |-> c.home_id,
             away_team |-> c.away_team,
             away_id |-> c.away_id,
             home_goals |-> home_goals,
             away_goals |-> away_goals,
             winner |-> winner,
             match_status |-> match.matchStatus,
             goals |-> match.goal]

extract_match_result(match) ==
    IF ~match.matchInfo THEN NoResult
    ELSE
    LET c == ResolveContestants(match.contestant,
                 [home_team |-> None, home_id |-> None,
                  away_team |-> None, away_id |-> None])
    IN  IF ~match.liveData \/ ~match.matchDetails THEN NoResult
        ELSE IF match.matchStatus # "Played" THEN NoResult
        ELSE
        LET home_goals == IF match.scores.present THEN match.scores.home ELSE 0
            away_goals == IF match.scores.present THEN match.scores.away ELSE 0
            winner == IF home_goals > away_goals THEN "home"
                      ELSE IF away_goals > home_goals THEN "away"
                      ELSE "draw"
        IN  [match_id |-> match.id,
             date |-> match.date,
             home_team |-> c.home_team,
             home_id |-> c.home_id,
             away_team |-> c.away_team,
             away_id |-> c.away_id,
             home_goals |-> home_goals,
             away_goals |-> away_goals,
             winner |-> winner,
             match_status |-> match.matchStatus,
             goals |-> match.goal]

-----------------------------------------------------------------------------
(* match_has_red_cards *)

RECURSIVE AnyRedCard(_)
AnyRedCard(lineups) ==
    IF lineups = <<>> THEN FALSE
    ELSE IF Head(lineups).totalRedCard > 0 THEN TRUE
    ELSE AnyRedCard(Tail(lineups))

match_has_red_cards(match) ==
    IF ~match.liveData \/ match.lineUp = <<>> THEN FALSE
    ELSE AnyRedCard(match.lineUp)

-----------------------------------------------------------------------------
(* analyze_match_goals *)

\* GoalKeyLE with the period left out of the sort key
GoalKeyLEByMinuteOnly(g1, g2) == g1.timeMin <= g2.timeMin

GoalKeyLE(g1, g2) ==
    \/ g1.periodId < g2.periodId
    \/ g1.periodId = g2.periodId /\ g1.timeMin <= g2.timeMin

\* sorted(..., key=(periodId, timeMin)): stable, equal keys keep source order
RECURSIVE InsertGoal(_, _)
InsertGoal(sorted, g) ==
    IF sorted = <<>> THEN <<g>>
    ELSE IF GoalKeyLE(Head(sorted), g)
         THEN <<Head(sorted)>> \o InsertGoal(Tail(sorted), g)
         ELSE <<g>> \o sorted

RECURSIVE SortGoals(_, _)
SortGoals(goals, acc) ==
    IF goals = <<>> THEN acc
    ELSE SortGoals(Tail(goals), InsertGoal(acc, Head(goals)))

\* ReplayWasLosing with the scores compared once, after the last goal
RECURSIVE ReplayWasLosingAtEnd(_, _, _, _, _)
ReplayWasLosingAtEnd(goals, team_id, team_score, opponent_score, was_losing) ==
    IF goals = <<>> THEN opponent_score > team_score
    ELSE LET ts == IF Head(goals).contestantId = team_id
                      THEN team_score + 1 ELSE team_score
             os == IF Head(goals).contestantId = team_id
                      THEN opponent_score ELSE opponent_score + 1
         IN ReplayWasLosingAtEnd(Tail(goals), team_id, ts, os, was_losing)

\* the replay of the sorted goals: was_losing after the whole list
RECURSIVE ReplayWasLosing(_, _, _, _, _)
ReplayWasLosing(goals, team_id, team_score, opponent_score, was_losing) ==
    IF goals = <<>> THEN was_losing
    ELSE LET ts == IF Head(goals).contestantId = team_id
                      THEN team_score + 1 ELSE team_score
             os == IF Head(goals).contestantId = team_id
                      THEN opponent_score ELSE opponent_score + 1
         IN ReplayWasLosing(Tail(goals), team_id, ts, os,
                            was_losing \/ os > ts)

NoFlags == [scored_first |-> FALSE, conceded_first |-> FALSE, comeback |-> FALSE]

\* analyze_match_goals for a comeback that has to end in a win
analyze_match_goalsWinOnly(match, team_name) ==
    IF match = NoResult THEN NoFlags
    ELSE IF match.goals = <<>> THEN NoFlags
    ELSE
    LET is_home == (team_name = match.home_team)
        team_id == IF is_home THEN match.home_id ELSE match.away_id
        sorted_goals == SortGoals(match.goals, <<>>)
        conceded_first == (sorted_goals[1].contestantId # team_id)
    IN  [scored_first |-> ~conceded_first,
         conceded_first |-> conceded_first,
         comeback |->
             /\ conceded_first
             /\ ReplayWasLosing(sorted_goals, team_id, 0, 0, FALSE)
             /\ \/ is_home /\ match.winner = "home"
                \/ ~is_home /\ match.winner = "away"]

\* lines 113-183
analyze_match_goals(match, team_name) ==
    IF match = NoResult THEN NoFlags
    ELSE IF match.goals = <<>> THEN NoFlags
    ELSE
    LET is_home == (team_name = match.home_team)
        team_id == IF is_home THEN match.home_id ELSE match.away_id
        sorted_goals == SortGoals(match.goals, <<>>)
        first_goal_contestant == sorted_goals[1].contestantId
        scored_first == (first_goal_contestant = team_id)
        conceded_first == (first_goal_contestant # team_id)
        was_losing == ReplayWasLosing(sorted_goals, team_id, 0, 0, FALSE)
        final_result == match.winner
        comeback ==
            /\ conceded_first
            /\ was_losing
            /\ \/ is_home /\ final_result \in {"home", "draw"}
               \/ ~is_home /\ final_result \in {"away", "draw"}
    IN  [scored_first |-> scored_first,
         conceded_first |-> conceded_first,
         comeback |-> comeback]

-----------------------------------------------------------------------------
(* calculate_team_stats *)

In(list, x) == \E i \in 1..Len(list) : list[i] = x

NoneFrame == [kind |-> "None", rows |-> <<>>]

\* advanced_filters is only tested for truthiness and for its flags: a dict
\* that sets no flag leaves every should_count_* True, as None does
NoFilters == [scored_first |-> FALSE, conceded_first |-> FALSE,
              comeback |-> FALSE, no_red_cards |-> FALSE]

NoneList == [isNone |-> TRUE, list |-> <<>>]

\* reference_standings[(Pos >= min_pos) & (Pos <= max_pos)]['Equipo'].tolist()
TeamsInRange(reference_standings, top_n_range) ==
    LET in_range == SelectSeq(reference_standings.rows,
                        LAMBDA r : r.Pos >= top_n_range[1]
                                   /\ r.Pos <= top_n_range[2])
    IN  [i \in 1..Len(in_range) |-> in_range[i].Equipo]

\* ResolveTopTeamsList with the position range taking precedence
ResolveTopTeamsListRangeFirst(top_n_range, reference_standings, rival_teams) ==
    IF top_n_range # <<>> /\ reference_standings.kind # "None"
    THEN [isNone |-> FALSE,
          list |-> TeamsInRange(reference_standings, top_n_range)]
    ELSE IF rival_teams # <<>> /\ Len(rival_teams) > 0
    THEN [isNone |-> FALSE, list |-> rival_teams]
    ELSE NoneList

\* lines 201-209: the opponent restriction that the fold applies
ResolveTopTeamsList(top_n_range, reference_standings, rival_teams) ==
    IF rival_teams # <<>> /\ Len(rival_teams) > 0
    THEN [isNone |-> FALSE, list |-> rival_teams]
    ELSE IF top_n_range # <<>> /\ reference_standings.kind # "None"
    THEN [isNone |-> FALSE,
          list |-> TeamsInRange(reference_standings, top_n_range)]
    ELSE NoneList

NewRow(team) ==
    [Equipo |-> team, PJ |-> 0, G |-> 0, E |-> 0, P |-> 0,
     GF |-> 0, GC |-> 0, DG |-> 0, Pts |-> 0]

\* lines 243-255
RegisterTeam(team_stats, team) ==
    IF \E i \in 1..Len(team_stats) : team_stats[i].Equipo = team
    THEN team_stats
    ELSE Append(team_stats, NewRow(team))

\* CountMatch with a win worth two points
CountMatchTwoPointWin(team_stats, team, goals_for, goals_against, won, drawn) ==
    [i \in 1..Len(team_stats) |->
        IF team_stats[i].Equipo # team THEN team_stats[i]
        ELSE [team_stats[i] EXCEPT
                !.PJ = @ + 1,
                !.GF = @ + goals_for,
                !.GC = @ + goals_against,
                !.G = IF won THEN @ + 1 ELSE @,
                !.E = IF ~won /\ drawn THEN @ + 1 ELSE @,
                !.P = IF ~won /\ ~drawn THEN @ + 1 ELSE @,
                !.Pts = IF won THEN @ + 2 ELSE IF drawn THEN @ + 1 ELSE @]]

\* lines 273-284 and 302-313: one match counted for one side
CountMatch(team_stats, team, goals_for, goals_against, won, drawn) ==
    [i \in 1..Len(team_stats) |->
        IF team_stats[i].Equipo # team THEN team_stats[i]
        ELSE [team_stats[i] EXCEPT
                !.PJ = @ + 1,
                !.GF = @ + goals_for,
                !.GC = @ + goals_against,
                !.G = IF won THEN @ + 1 ELSE @,
                !.E = IF ~won /\ drawn THEN @ + 1 ELSE @,
                !.P = IF ~won /\ ~drawn THEN @ + 1 ELSE @,
                !.Pts = IF won THEN @ + 3 ELSE IF drawn THEN @ + 1 ELSE @]]

\* lines 262-270 and 291-299
ShouldCount(advanced_filters, flags) ==
    /\ ~(advanced_filters.scored_first /\ ~flags.scored_first)
    /\ ~(advanced_filters.conceded_first /\ ~flags.conceded_first)
    /\ ~(advanced_filters.comeback /\ ~flags.comeback)

\* lines 224-240: the match-level opponent test
ShouldInclude(match, match_type, top_teams) ==
    IF top_teams.isNone THEN TRUE
    ELSE IF match_type = "Local" THEN In(top_teams.list, match.away_team)
    ELSE IF match_type = "Visitante" THEN In(top_teams.list, match.home_team)
    ELSE In(top_teams.list, match.home_team) \/ In(top_teams.list, match.away_team)

\* CountSideOf with the home side counted whichever side is asked for
CountSideOfHomeAlways(team_stats, match, side) ==
    CountMatch(team_stats, match.home_team, match.home_goals,
               match.away_goals, match.winner = "home", match.winner = "draw")

\* lines 273-284 for the home side, lines 302-313 for the away side
CountSideOf(team_stats, match, side) ==
    IF side = "home"
    THEN CountMatch(team_stats, match.home_team, match.home_goals,
                    match.away_goals, match.winner = "home",
                    match.winner = "draw")
    ELSE CountMatch(team_stats, match.away_team, match.away_goals,
                    match.home_goals, match.winner = "away",
                    match.winner = "draw")

\* FoldMatch with the match-level opponent test alone, without the tests of
\* lines 260 and 289
FoldMatchWithoutSideTest(team_stats, match, match_type, top_teams, advanced_filters) ==
    IF match = NoResult THEN team_stats
    ELSE IF ~ShouldInclude(match, match_type, top_teams) THEN team_stats
    ELSE
    LET registered == RegisterTeam(RegisterTeam(team_stats, match.home_team),
                                   match.away_team)
        count_home ==
            /\ match_type \in {"Todos", "Local"}
            /\ ShouldCount(advanced_filters,
                           analyze_match_goals(match, match.home_team))
        after_home == IF count_home THEN CountSideOf(registered, match, "home")
                      ELSE registered
        count_away ==
            /\ match_type \in {"Todos", "Visitante"}
            /\ ShouldCount(advanced_filters,
                           analyze_match_goals(match, match.away_team))
    IN  IF count_away THEN CountSideOf(after_home, match, "away")
        ELSE after_home

\* FoldMatch with the away side counted in away-only mode alone
FoldMatchAwayInVisitanteOnly(team_stats, match, match_type, top_teams, advanced_filters) ==
    IF match = NoResult THEN team_stats
    ELSE IF ~ShouldInclude(match, match_type, top_teams) THEN team_stats
    ELSE
    LET registered == RegisterTeam(RegisterTeam(team_stats, match.home_team),
                                   match.away_team)
        count_home ==
            /\ match_type \in {"Todos", "Local"}
            /\ top_teams.isNone \/ In(top_teams.list, match.away_team)
            /\ ShouldCount(advanced_filters,
                           analyze_match_goals(match, match.home_team))
        after_home == IF count_home THEN CountSideOf(registered, match, "home")
                      ELSE registered
        count_away ==
            /\ match_type \in {"Visitante"}
            /\ top_teams.isNone \/ In(top_teams.list, match.home_team)
            /\ ShouldCount(advanced_filters,
                           analyze_match_goals(match, match.away_team))
    IN  IF count_away THEN CountSideOf(after_home, match, "away")
        ELSE after_home

\* the body of the loop over the matches (lines 214-313)
FoldMatch(team_stats, match, match_type, top_teams, advanced_filters) ==
    IF match = NoResult THEN team_stats
    ELSE IF ~ShouldInclude(match, match_type, top_teams) THEN team_stats
    ELSE
    LET registered == RegisterTeam(RegisterTeam(team_stats, match.home_team),
                                   match.away_team)
        count_home ==
            /\ match_type \in {"Todos", "Local"}
            /\ top_teams.isNone \/ In(top_teams.list, match.away_team)
            /\ ShouldCount(advanced_filters,
                           analyze_match_goals(match, match.home_team))
        after_home == IF count_home THEN CountSideOf(registered, match, "home")
                      ELSE registered
        count_away ==
            /\ match_type \in {"Todos", "Visitante"}
            /\ top_teams.isNone \/ In(top_teams.list, match.home_team)
            /\ ShouldCount(advanced_filters,
                           analyze_match_goals(match, match.away_team))
    IN  IF count_away THEN CountSideOf(after_home, match, "away")
        ELSE after_home

RECURSIVE FoldMatches(_, _, _, _, _)
FoldMatches(matches, team_stats, match_type, top_teams, advanced_filters) ==
    IF matches = <<>> THEN team_stats
    ELSE FoldMatches(Tail(matches),
                     FoldMatch(team_stats, Head(matches), match_type,
                               top_teams, advanced_filters),
                     match_type, top_teams, advanced_filters)

\* what a division by zero leaves in place of a percentage
ZeroDivisionError == -1

\* round(points / max_points * 100, 1) in tenths of a percent; no quotient
\* within the bounds of the model falls on a rounding tie
RoundedPct(points, max_points) ==
    IF max_points = 0 THEN ZeroDivisionError
    ELSE (2000 * points + max_points) \div (2 * max_points)

\* PctPts without the test max_points > 0
PctPtsUnguarded(row) == RoundedPct(row.Pts, row.PJ * 3)

\* line 319-320
PctPts(row) ==
    LET max_points == row.PJ * 3
    IN  IF max_points > 0 THEN RoundedPct(row.Pts, max_points) ELSE 0

\* lines 315-320
WithDerived(row) ==
    [Equipo |-> row.Equipo, PJ |-> row.PJ, G |-> row.G, E |-> row.E,
     P |-> row.P, GF |-> row.GF, GC |-> row.GC, DG |-> row.GF - row.GC,
     Pts |-> row.Pts, PctPts |-> PctPts(row)]

\* KeyGE with the goal difference left out of the sort key
KeyGEWithoutDG(r1, r2) ==
    \/ r1.Pts > r2.Pts
    \/ r1.Pts = r2.Pts /\ r1.GF >= r2.GF

\* r1 stays ahead of r2 under by=['Pts','DG','GF'], ascending=False
KeyGE(r1, r2) ==
    \/ r1.Pts > r2.Pts
    \/ r1.Pts = r2.Pts /\ r1.DG > r2.DG
    \/ r1.Pts = r2.Pts /\ r1.DG = r2.DG /\ r1.GF >= r2.GF

\* InsertRow for a sort that puts a row ahead of the rows level with it
RECURSIVE InsertRowAheadOfEquals(_, _)
InsertRowAheadOfEquals(sorted, r) ==
    IF sorted = <<>> THEN <<r>>
    ELSE IF KeyGE(Head(sorted), r) /\ ~KeyGE(r, Head(sorted))
         THEN <<Head(sorted)>> \o InsertRowAheadOfEquals(Tail(sorted), r)
         ELSE <<r>> \o sorted

RECURSIVE InsertRow(_, _)
InsertRow(sorted, r) ==
    IF sorted = <<>> THEN <<r>>
    ELSE IF KeyGE(Head(sorted), r)
         THEN <<Head(sorted)>> \o InsertRow(Tail(sorted), r)
         ELSE <<r>> \o sorted

\* DataFrame.sort_values on several columns (a stable lexsort)
RECURSIVE SortValues(_, _)
SortValues(rows, acc) ==
    IF rows = <<>> THEN acc
    ELSE SortValues(Tail(rows), InsertRow(acc, Head(rows)))

\* df.insert(0, 'Pos', range(1, len(df) + 1))
InsertPos(rows) ==
    [i \in 1..Len(rows) |->
        [Pos |-> i, Equipo |-> rows[i].Equipo, PJ |-> rows[i].PJ,
         G |-> rows[i].G, E |-> rows[i].E, P |-> rows[i].P,
         GF |-> rows[i].GF, GC |-> rows[i].GC, DG |-> rows[i].DG,
         Pts |-> rows[i].Pts, PctPts |-> rows[i].PctPts]]

\* lines 211-334, given the opponent restriction resolved at lines 201-209
StandingsFrame(matches, match_type, top_teams, advanced_filters) ==
    LET team_stats == FoldMatches(matches, <<>>, match_type, top_teams,
                                  advanced_filters)
        derived == [i \in 1..Len(team_stats) |-> WithDerived(team_stats[i])]
    IN  IF derived = <<>>
        THEN [kind |-> "KeyError", rows |-> <<>>]
        ELSE [kind |-> "DataFrame", rows |-> InsertPos(SortValues(derived, <<>>))]

calculate_team_stats(matches, match_type, top_n_range, reference_standings, rival_teams, advanced_filters) ==
    StandingsFrame(matches, match_type,
                   ResolveTopTeamsList(top_n_range, reference_standings,
                                       rival_teams),
                   advanced_filters)

-----------------------------------------------------------------------------
(* build_standings_table *)

NaT == -1

\* date_str.replace('Z', '') then pd.to_datetime(format='%Y-%m-%d',
\* errors='coerce'): a calendar date with or without the zone marker parses
\* to its day; a date carrying a time part, any other text and a missing
\* date coerce to NaT
StandingsDate(date) ==
    IF date.kind \in {"plain", "Z"} THEN date.day ELSE NaT

\* DroppedByDate for a range that leaves its end date out
DroppedByDateBeforeEnd(result, date_range) ==
    /\ date_range # <<>>
    /\ LET match_date == StandingsDate(result.date)
       IN  /\ match_date # NaT
           /\ ~(date_range[1] <= match_date /\ match_date < date_range[2])

\* lines 368-388: TRUE when the date filter drops the match
DroppedByDate(result, date_range) ==
    /\ date_range # <<>>
    /\ LET match_date == StandingsDate(result.date)
       IN  /\ match_date # NaT
           /\ ~(date_range[1] <= match_date /\ match_date <= date_range[2])

\* lines 356-361
RECURSIVE AllMatchesForReference(_)
AllMatchesForReference(matches_raw) ==
    IF matches_raw = <<>> THEN <<>>
    ELSE LET result == extract_match_result(Head(matches_raw))
         IN  IF result # NoResult
             THEN <<result>> \o AllMatchesForReference(Tail(matches_raw))
             ELSE AllMatchesForReference(Tail(matches_raw))

\* lines 363-395
RECURSIVE MatchesProcessed(_, _, _)
MatchesProcessed(matches_raw, date_range, advanced_filters) ==
    IF matches_raw = <<>> THEN <<>>
    ELSE LET match == Head(matches_raw)
             result == extract_match_result(match)
             rest == MatchesProcessed(Tail(matches_raw), date_range,
                                      advanced_filters)
         IN  IF result = NoResult THEN rest
             ELSE IF DroppedByDate(result, date_range) THEN rest
             ELSE IF advanced_filters.no_red_cards /\ match_has_red_cards(match)
                  THEN rest
             ELSE <<result>> \o rest

\* ReferenceStandings with the reference table built in home-only mode
ReferenceStandingsHomeOnly(matches_raw, top_n_range) ==
    IF top_n_range # <<>>
    THEN calculate_team_stats(AllMatchesForReference(matches_raw), "Local",
                              <<>>, NoneFrame, <<>>, NoFilters)
    ELSE NoneFrame

\* lines 397-400
ReferenceStandings(matches_raw, top_n_range) ==
    IF top_n_range # <<>>
    THEN calculate_team_stats(AllMatchesForReference(matches_raw), "Todos",
                              <<>>, NoneFrame, <<>>, NoFilters)
    ELSE NoneFrame

\* the value returned (standings: a frame, or the exception that leaves the
\* function) together with the opponent restriction its last call resolved
BuildStandings(d, match_type, top_n_range, date_range, rival_teams, advanced_filters) ==
    IF ~d.hasMatches
    THEN [standings |-> [kind |-> "DataFrame", rows |-> <<>>],
          top_teams_list |-> NoneList]
    ELSE
    LET reference_standings == ReferenceStandings(d.matches, top_n_range)
        top_teams == ResolveTopTeamsList(top_n_range, reference_standings,
                                         rival_teams)
    IN  IF reference_standings.kind = "KeyError"
        THEN [standings |-> reference_standings, top_teams_list |-> NoneList]
        ELSE [standings |->
                  StandingsFrame(
                      MatchesProcessed(d.matches, date_range, advanced_filters),
                      match_type, top_teams, advanced_filters),
              top_teams_list |-> top_teams]

build_standings_table(d, match_type, top_n_range, date_range, rival_teams, advanced_filters) ==
    BuildStandings(d, match_type, top_n_range, date_range, rival_teams,
                   advanced_filters).standings

\* GoalsLeftBySort for a sort in place (goals.sort(key=...))
GoalsLeftBySortInPlace(goals) == SortGoals(goals, <<>>)

\* line 141: sorted(goals, key=...) builds a new list; the list it is given,
\* which is the goal list of the match document (line 77 hands it on without
\* a copy), keeps its order
GoalsLeftBySort(goals) == goals

\* the goal list of the document reaches analyze_match_goals (line 264 or
\* 293) during the fold over matches_processed
GoalsAnalysed(match, match_type, top_teams, date_range, advanced_filters) ==
    LET result == extract_match_result(match)
    IN  /\ result # NoResult
        /\ ~DroppedByDate(result, date_range)
        /\ ~(advanced_filters.no_red_cards /\ match_has_red_cards(match))
        /\ ShouldInclude(result, match_type, top_teams)
        /\ advanced_filters # NoFilters
        /\ result.goals # <<>>
        /\ \/ /\ match_type \in {"Todos", "Local"}
              /\ top_teams.isNone \/ In(top_teams.list, result.away_team)
           \/ /\ match_type \in {"Todos", "Visitante"}
              /\ top_teams.isNone \/ In(top_teams.list, result.home_team)

\* data as build_standings_table leaves it: the function assigns to no key of
\* a match document, and the only list of the corpus it hands to a sort is
\* the goal list of an analysed match
CorpusAfterStandings(d, match_type, top_n_range, date_range, rival_teams, advanced_filters) ==
    LET built == BuildStandings(d, match_type, top_n_range, date_range,
                                rival_teams, advanced_filters)
    IN  IF ~d.hasMatches THEN d
        ELSE IF ReferenceStandings(d.matches, top_n_range).kind = "KeyError"
        THEN d
        ELSE [d EXCEPT !.matches =
                [i \in 1..Len(d.matches) |->
                    IF GoalsAnalysed(d.matches[i], match_type,
                                     built.top_teams_list, date_range,
                                     advanced_filters)
                    THEN [d.matches[i] EXCEPT !.goal = GoalsLeftBySort(@)]
                    ELSE d.matches[i]]]

-----------------------------------------------------------------------------
(* Lineups, segments and the goal timeline of one team in one match *)

NoMinute == -1

NoPoints == -1

Max(a, b) == IF a > b THEN a ELSE b

\* the lineup blocks whose contestantId is that of a contestant with this name
LineupsOf(match, team_name) ==
    IF ~match.liveData \/ ~match.matchInfo THEN <<>>
    ELSE SelectSeq(match.lineUp,
             LAMBDA lineup : \E i \in 1..Len(match.contestant) :
                 /\ match.contestant[i].id = lineup.contestantId
                 /\ match.contestant[i].name = team_name)

get_team_starting_players(match, team_name) ==
    LET lineups == LineupsOf(match, team_name)
    IN  IF lineups = <<>> THEN <<>>
        ELSE LET starters == SelectSeq(lineups[1].player,
                                 LAMBDA p : p.position # "Substitute")
             IN  [i \in 1..Len(starters) |-> starters[i].matchName]

\* an official's name stands for matchName, or else the first and last name
\* joined, as lines 572-586 resolve it
get_team_manager(match, team_name) ==
    LET with_manager ==
            SelectSeq(LineupsOf(match, team_name),
                LAMBDA lineup : \E i \in 1..Len(lineup.teamOfficial) :
                    lineup.teamOfficial[i].type = "manager")
    IN  IF with_manager = <<>> THEN ""
        ELSE SelectSeq(with_manager[1].teamOfficial,
                       LAMBDA o : o.type = "manager")[1].name

\* lines 1134-1142: the id of the first contestant with this name
ContestantIdOf(match, team_name) ==
    LET named == IF match.matchInfo
                 THEN SelectSeq(match.contestant, LAMBDA c : c.name = team_name)
                 ELSE <<>>
    IN  IF named = <<>> THEN None ELSE named[1].id

\* lines 1144-1157: the players of the first lineup block of the team
TeamPlayers(match, contestant_id) ==
    LET blocks == IF match.liveData
                  THEN SelectSeq(match.lineUp,
                           LAMBDA tl : tl.contestantId = contestant_id)
                  ELSE <<>>
    IN  IF blocks = <<>> THEN <<>> ELSE blocks[1].player

Substitutes(match) == IF match.liveData THEN match.substitute ELSE <<>>

\* player_in.get(player_id): the minute of the team's last substitution that
\* brought the player on
RECURSIVE PlayerIn(_, _, _)
PlayerIn(team_subs, player_id, found) ==
    IF team_subs = <<>> THEN found
    ELSE PlayerIn(Tail(team_subs), player_id,
                  IF Head(team_subs).playerOnId = player_id
                  THEN Head(team_subs).timeMin ELSE found)

RECURSIVE PlayerOut(_, _, _)
PlayerOut(team_subs, player_id, found) ==
    IF team_subs = <<>> THEN found
    ELSE PlayerOut(Tail(team_subs), player_id,
                   IF Head(team_subs).playerOffId = player_id
                   THEN Head(team_subs).timeMin ELSE found)

\* dict[key] = value on a dict kept as a sequence in insertion order
Put(dict, entry) ==
    IF \E i \in 1..Len(dict) : dict[i].player_name = entry.player_name
    THEN [i \in 1..Len(dict) |->
             IF dict[i].player_name = entry.player_name THEN entry ELSE dict[i]]
    ELSE Append(dict, entry)

RECURSIVE Segments(_, _, _)
Segments(players, team_subs, segments) ==
    IF players = <<>> THEN segments
    ELSE
    LET player == Head(players)
        min_start == IF player.gameStarted THEN 0
                     ELSE PlayerIn(team_subs, player.playerId, NoMinute)
        min_end == PlayerOut(team_subs, player.playerId, NoMinute)
    IN  IF player.matchName = None \/ min_start = NoMinute
        THEN Segments(Tail(players), team_subs, segments)
        ELSE Segments(Tail(players), team_subs,
                      Put(segments, [player_name |-> player.matchName,
                                     min_start |-> min_start,
                                     min_end |-> min_end]))

\* get_player_segments_in_match reading the substitutions of both sides
get_player_segments_in_matchAnySide(match, team_name) ==
    LET contestant_id == ContestantIdOf(match, team_name)
    IN  IF contestant_id = None THEN <<>>
        ELSE Segments(TeamPlayers(match, contestant_id), Substitutes(match),
                      <<>>)

\* lines 1127-1204
get_player_segments_in_match(match, team_name) ==
    LET contestant_id == ContestantIdOf(match, team_name)
    IN  IF contestant_id = None THEN <<>>
        ELSE Segments(TeamPlayers(match, contestant_id),
                      SelectSeq(Substitutes(match),
                          LAMBDA sub : sub.contestantId = contestant_id),
                      <<>>)

RECURSIVE StarterStatus(_, _)
StarterStatus(players, starter_status) ==
    IF players = <<>> THEN starter_status
    ELSE IF Head(players).matchName = None
         THEN StarterStatus(Tail(players), starter_status)
         ELSE StarterStatus(Tail(players),
                  Put(starter_status,
                      [player_name |-> Head(players).matchName,
                       game_started |-> Head(players).gameStarted]))

get_player_starter_status(match, team_name) ==
    LET contestant_id == ContestantIdOf(match, team_name)
    IN  IF contestant_id = None THEN <<>>
        ELSE StarterStatus(TeamPlayers(match, contestant_id), <<>>)

get_goals_timeline(match, team_name) ==
    IF extract_match_result(match) = NoResult THEN <<>>
    ELSE LET contestant_id == ContestantIdOf(match, team_name)
         IN  [i \in 1..Len(match.goal) |->
                 [timeMin |-> match.goal[i].timeMin,
                  is_team_goal |-> match.goal[i].contestantId = contestant_id,
                  is_home |-> extract_match_result(match).home_team = team_name]]

RECURSIVE MaxTimeMin(_, _)
MaxTimeMin(events, max_time) ==
    IF events = <<>> THEN max_time
    ELSE MaxTimeMin(Tail(events), Max(max_time, Head(events).timeMin))

\* get_match_end_time looking at the goals alone
get_match_end_timeOfGoals(match, goals_timeline) ==
    MaxTimeMin(goals_timeline, 90)

\* lines 1287-1305
get_match_end_time(match, goals_timeline) ==
    MaxTimeMin(Substitutes(match), MaxTimeMin(goals_timeline, 90))

\* calculate_goals_in_segment counting the goals of the whole timeline
calculate_goals_in_segmentWholeMatch(goals_timeline, min_start, min_end) ==
    << Len(SelectSeq(goals_timeline, LAMBDA g : g.is_team_goal)),
       Len(SelectSeq(goals_timeline, LAMBDA g : ~g.is_team_goal)) >>

\* <<goals for, goals against>> of the goals with min_start <= timeMin <= min_end
calculate_goals_in_segment(goals_timeline, min_start, min_end) ==
    LET inside == SelectSeq(goals_timeline,
                      LAMBDA g : min_start <= g.timeMin /\ g.timeMin <= min_end)
    IN  << Len(SelectSeq(inside, LAMBDA g : g.is_team_goal)),
           Len(SelectSeq(inside, LAMBDA g : ~g.is_team_goal)) >>

calculate_goals_outside_segment(goals_timeline, min_start, min_end) ==
    LET outside == SelectSeq(goals_timeline,
                       LAMBDA g : g.timeMin < min_start \/ g.timeMin > min_end)
    IN  << Len(SelectSeq(outside, LAMBDA g : g.is_team_goal)),
           Len(SelectSeq(outside, LAMBDA g : ~g.is_team_goal)) >>

-----------------------------------------------------------------------------
(* calculate_team_stats_with_players *)

NoStats ==
    [total_matches |-> 0, total_points |-> 0, points_percentage |-> 0,
     goals_for |-> 0, goals_against |-> 0, goal_difference |-> 0,
     wins |-> 0, draws |-> 0, losses |-> 0]

\* lines 682-707: the team plays the match and the match passes the starter
\* and manager filters
StartersSurvive(match, result, team_name, include_players, exclude_players, manager) ==
    /\ result.home_team = team_name \/ result.away_team = team_name
    /\ LET starters == get_team_starting_players(match, team_name)
       IN  /\ \A i \in 1..Len(include_players) : In(starters, include_players[i])
           /\ \A i \in 1..Len(exclude_players) : ~In(starters, exclude_players[i])
    /\ manager # "" => get_team_manager(match, team_name) = manager

\* lines 709-736
CountForTeam(stats, result, team_name) ==
    LET is_home == (result.home_team = team_name)
        mine == IF is_home THEN "home" ELSE "away"
    IN  [stats EXCEPT
            !.total_matches = @ + 1,
            !.goals_for = @ + (IF is_home THEN result.home_goals
                               ELSE result.away_goals),
            !.goals_against = @ + (IF is_home THEN result.away_goals
                                   ELSE result.home_goals),
            !.wins = IF result.winner = mine THEN @ + 1 ELSE @,
            !.draws = IF result.winner # mine /\ result.winner = "draw"
                      THEN @ + 1 ELSE @,
            !.losses = IF result.winner # mine /\ result.winner # "draw"
                       THEN @ + 1 ELSE @,
            !.total_points = IF result.winner = mine THEN @ + 3
                             ELSE IF result.winner = "draw" THEN @ + 1 ELSE @]

\* lines 676-736
RECURSIVE FilteredStats(_, _, _, _, _, _)
FilteredStats(matches_raw, stats, team_name, include_players, exclude_players, manager) ==
    IF matches_raw = <<>> THEN stats
    ELSE
    LET match == Head(matches_raw)
        result == extract_match_result(match)
        counted ==
            IF result = NoResult THEN stats
            ELSE IF ~StartersSurvive(match, result, team_name, include_players,
                                     exclude_players, manager)
            THEN stats
            ELSE CountForTeam(stats, result, team_name)
    IN  FilteredStats(Tail(matches_raw), counted, team_name, include_players,
                      exclude_players, manager)

\* total_points / max_points * 100, kept in thousandths of a percent and cut
\* off there
PointsPercentage(total_points, max_points) ==
    IF max_points = 0 THEN ZeroDivisionError
    ELSE (total_points * 100000) \div max_points

calculate_team_stats_with_players(d, team_name, include_players, exclude_players, manager) ==
    IF ~d.hasMatches THEN NoStats
    ELSE
    LET stats == FilteredStats(d.matches, NoStats, team_name, include_players,
                               exclude_players, manager)
        max_points == stats.total_matches * 3
    IN  [stats EXCEPT
            !.goal_difference = stats.goals_for - stats.goals_against,
            !.points_percentage =
                IF stats.total_matches > 0
                THEN IF max_points > 0
                     THEN PointsPercentage(stats.total_points, max_points)
                     ELSE 0
                ELSE @]

-----------------------------------------------------------------------------
(* calculate_competitiveness_index *)

PointsOf(goals_for, goals_against) ==
    IF goals_for > goals_against THEN 3
    ELSE IF goals_for < goals_against THEN 0
    ELSE 1

ResultOf(goals_for, goals_against) ==
    IF goals_for > goals_against THEN "win"
    ELSE IF goals_for < goals_against THEN "loss"
    ELSE "draw"

\* str(date).replace('Z', '').split('T')[0] then pd.to_datetime(
\* format='%Y-%m-%d', errors='coerce'): a calendar date parses to its day
\* with or without a zone marker or a time part; any other text, and the
\* text 'None' of a missing date, coerce to NaT
PlayerDate(date) ==
    IF date.kind \in {"plain", "Z", "T"} THEN date.day ELSE NaT

\* PlayerDroppedByDate for a filter that lets a date that is NaT through
PlayerDroppedByDateKeepingNaT(result, date_range) ==
    /\ date_range # <<>>
    /\ LET match_date == PlayerDate(result.date)
       IN  /\ match_date # NaT
           /\ ~(date_range[1] <= match_date /\ match_date <= date_range[2])

\* lines 952-959: TRUE when the date filter drops the match
PlayerDroppedByDate(result, date_range) ==
    /\ date_range # <<>>
    /\ LET match_date == PlayerDate(result.date)
       IN  \/ match_date = NaT
           \/ ~(date_range[1] <= match_date /\ match_date <= date_range[2])

\* lines 945-972: the match passes the team, date, starter and manager filters
MatchSurvives(match, result, team_name, include_players, exclude_players, manager, date_range) ==
    /\ result.home_team = team_name \/ result.away_team = team_name
    /\ ~PlayerDroppedByDate(result, date_range)
    /\ LET starters == get_team_starting_players(match, team_name)
       IN  /\ \A i \in 1..Len(include_players) : In(starters, include_players[i])
           /\ \A i \in 1..Len(exclude_players) : ~In(starters, exclude_players[i])
    /\ manager # "" => get_team_manager(match, team_name) = manager

\* WithoutPoints computed from the goals outside the segment in every case
WithoutPointsUnforced(minutes_without, gf_without, gc_without) ==
    PointsOf(gf_without, gc_without)

\* lines 1038-1051: no points without the player when the player was on the
\* pitch for the whole match
WithoutPoints(minutes_without, gf_without, gc_without) ==
    IF minutes_without = 0 THEN NoPoints
    ELSE PointsOf(gf_without, gc_without)

\* Indice for a sum divided by 3
IndiceOverThree(minutes_norm, played_points, diff_points, played_gd, total_points) ==
    111 * (minutes_norm + 90 * (played_points + diff_points + played_gd
                                + total_points))

\* line 1056: the sum divided by 3.33, in units of 1/29970 so that the
\* quotient is exact: with minutes_norm in ninetieths the sum is s/90, and
\* (s/90) / 3.33 = 100 s / (90 * 333)
Indice(minutes_norm, played_points, diff_points, played_gd, total_points) ==
    100 * (minutes_norm + 90 * (played_points + diff_points + played_gd
                                + total_points))

\* lines 997-1073: the record of one player segment. minutes_norm is kept in
\* ninetieths and indice_competitividad in units of 1/29970
PlayerMatchRecord(result, is_home, segment, player_is_starter, goals_timeline, match_end_time) ==
    LET team_goals == IF is_home THEN result.home_goals ELSE result.away_goals
        rival_goals == IF is_home THEN result.away_goals ELSE result.home_goals
        total_points == PointsOf(team_goals, rival_goals)
        min_start == segment.min_start
        min_end == IF segment.min_end # NoMinute THEN segment.min_end
                   ELSE match_end_time
        minutes_played == min_end - min_start
        minutes_norm == IF minutes_played < 90 THEN minutes_played ELSE 90
        known == SelectSeq(player_is_starter,
                     LAMBDA e : e.player_name = segment.player_name)
        is_starter == IF known = <<>> THEN FALSE ELSE known[1].game_started
        before == calculate_goals_in_segment(goals_timeline, 0, min_start)
        sub_entry_situation ==
            IF ~is_starter /\ min_start > 0
            THEN IF before[1] > before[2] THEN "winning"
                 ELSE IF before[1] < before[2] THEN "losing"
                 ELSE "drawing"
            ELSE None
        played == calculate_goals_in_segment(goals_timeline, min_start, min_end)
        played_gd == played[1] - played[2]
        played_points == PointsOf(played[1], played[2])
        without == calculate_goals_outside_segment(goals_timeline, min_start,
                                                   min_end)
        minutes_without == match_end_time - minutes_played
        without_points == WithoutPoints(minutes_without, without[1], without[2])
        diff_points == IF minutes_without = 0 THEN 0
                       ELSE played_points - without_points
    IN  [player_name |-> segment.player_name,
         match_date |-> result.date,
         rival |-> IF is_home THEN result.away_team ELSE result.home_team,
         minutes_played |-> minutes_played,
         minutes_norm |-> minutes_norm,
         played_points |-> played_points,
         without_points |-> without_points,
         diff_points |-> diff_points,
         played_gd |-> played_gd,
         total_points |-> total_points,
         indice_competitividad |->
             Indice(minutes_norm, played_points, diff_points, played_gd,
                    total_points),
         total_result |-> ResultOf(team_goals, rival_goals),
         is_starter |-> is_starter,
         sub_entry_situation |-> sub_entry_situation]

\* lines 974-1073: the records of the players of one surviving match
MatchRecords(match, result, team_name) ==
    LET is_home == (result.home_team = team_name)
        player_segments == get_player_segments_in_match(match, team_name)
        player_is_starter == get_player_starter_status(match, team_name)
        goals_timeline == get_goals_timeline(match, team_name)
        match_end_time == get_match_end_time(match, goals_timeline)
    IN  [i \in 1..Len(player_segments) |->
            PlayerMatchRecord(result, is_home, player_segments[i],
                              player_is_starter, goals_timeline, match_end_time)]

\* lines 935-1073: player_match_records when the loop over the matches ends
RECURSIVE PlayerMatchRecords(_, _, _, _, _, _)
PlayerMatchRecords(matches_raw, team_name, include_players, exclude_players, manager, date_range) ==
    IF matches_raw = <<>> THEN <<>>
    ELSE
    LET match == Head(matches_raw)
        result == extract_match_result(match)
        rest == PlayerMatchRecords(Tail(matches_raw), team_name,
                    include_players, exclude_players, manager, date_range)
    IN  IF result = NoResult THEN rest
        ELSE IF ~MatchSurvives(match, result, team_name, include_players,
                               exclude_players, manager, date_range)
        THEN rest
        ELSE MatchRecords(match, result, team_name) \o rest

-----------------------------------------------------------------------------
(* get_minutes_played_by_player *)

\* lines 855-862: TRUE when the date filter drops the match
MinutesDroppedByDate(result, date_range) ==
    /\ date_range # <<>>
    /\ LET match_date == PlayerDate(result.date)
       IN  \/ match_date = NaT
           \/ ~(date_range[1] <= match_date /\ match_date <= date_range[2])

\* int(text) of the values a stat carries; any other text raises ValueError
IntOf == [text \in {"0", "1", "30", "90"} |->
             CASE text = "0" -> 0 [] text = "1" -> 1
               [] text = "30" -> 30 [] text = "90" -> 90]

\* lines 909-917: the value of the first 'minsPlayed' stat, 0 when there is
\* none or when its value is no integer
MinsPlayed(stats) ==
    LET found == SelectSeq(stats, LAMBDA stat : stat.type = "minsPlayed")
    IN  IF found = <<>> THEN 0
        ELSE IF found[1].value \in DOMAIN IntOf THEN IntOf[found[1].value]
        ELSE 0

\* lines 903-923: the minutes of the players of one lineup block added in
RECURSIVE AddMinutes(_, _)
AddMinutes(players, player_minutes_) ==
    IF players = <<>> THEN player_minutes_
    ELSE
    LET player_data == Head(players)
        player_name == player_data.matchName
        minutes == MinsPlayed(player_data.stat)
        held == SelectSeq(player_minutes_,
                          LAMBDA e : e.player_name = player_name)
    IN  AddMinutes(Tail(players),
            IF player_name = "" THEN player_minutes_
            ELSE IF held # <<>>
            THEN Put(player_minutes_,
                     [player_name |-> player_name,
                      minutes |-> held[1].minutes + minutes])
            ELSE Put(player_minutes_,
                     [player_name |-> player_name, minutes |-> minutes]))

\* lines 896-923: every lineup block of the team
RECURSIVE AddLineups(_, _, _)
AddLineups(lineup, contestant_id, player_minutes_) ==
    IF lineup = <<>> THEN player_minutes_
    ELSE AddLineups(Tail(lineup), contestant_id,
             IF Head(lineup).contestantId # contestant_id THEN player_minutes_
             ELSE AddMinutes(Head(lineup).player, player_minutes_))

\* lines 841-923: the loop over the matches
RECURSIVE MinutesOver(_, _, _, _, _, _, _)
MinutesOver(matches_raw, player_minutes_, team_name, include_players, exclude_players, manager, date_range) ==
    IF matches_raw = <<>> THEN player_minutes_
    ELSE
    LET match == Head(matches_raw)
        result == extract_match_result(match)
        starters == get_team_starting_players(match, team_name)
        contestant_id == ContestantIdOf(match, team_name)
        counted ==
            /\ result # NoResult
            /\ result.home_team = team_name \/ result.away_team = team_name
            /\ ~MinutesDroppedByDate(result, date_range)
            /\ \A i \in 1..Len(include_players) :
                   In(starters, include_players[i])
            /\ \A i \in 1..Len(exclude_players) :
                   ~In(starters, exclude_players[i])
            /\ manager # "" => get_team_manager(match, team_name) = manager
            /\ contestant_id # None
    IN  MinutesOver(Tail(matches_raw),
            IF counted
            THEN AddLineups(match.lineUp, contestant_id, player_minutes_)
            ELSE player_minutes_,
            team_name, include_players, exclude_players, manager, date_range)

get_minutes_played_by_player(d, team_name, include_players, exclude_players, manager, date_range) ==
    IF ~d.hasMatches THEN <<>>
    ELSE MinutesOver(d.matches, <<>>, team_name, include_players,
                     exclude_players, manager, date_range)

-----------------------------------------------------------------------------
(* calculate_competitiveness_index: the records grouped by player *)

\* a cell without a value, and a cell with one
NaN == [isNaN |-> TRUE, value |-> 0]

Cell(v) == [isNaN |-> FALSE, value |-> v]

\* the player names in the order groupby sorts them
PlayerOrder == <<"A1", "A2", "B1", "B2", "C1", "C2">>

RECURSIVE SumColumn(_, _)
SumColumn(rows, column) ==
    IF rows = <<>> THEN 0
    ELSE Head(rows)[column] + SumColumn(Tail(rows), column)

\* a mean is kept as the sum and the number of its terms
Mean(rows, column) == [sum |-> SumColumn(rows, column), n |-> Len(rows)]

\* lines 1089-1118: the two columns of one role; a player without a row in
\* the role gets no value from the left merge
Role(rows) ==
    IF rows = <<>> THEN [indice |-> NaN, minutes |-> NaN]
    ELSE [indice |-> Cell(Mean(rows, "indice_competitividad")),
          minutes |-> Cell(SumColumn(rows, "minutes_played"))]

\* df['match_date'].unique()
UniqueDates(df) == {df[i].match_date : i \in 1..Len(df)}

\* lines 1081-1122 for one player
PlayerRow(df, player_name) ==
    LET mine == SelectSeq(df, LAMBDA rec : rec.player_name = player_name)
        starter == Role(SelectSeq(mine, LAMBDA rec : rec.is_starter))
        winning == Role(SelectSeq(mine, LAMBDA rec :
                       ~rec.is_starter /\ rec.sub_entry_situation = "winning"))
        drawing == Role(SelectSeq(mine, LAMBDA rec :
                       ~rec.is_starter /\ rec.sub_entry_situation = "drawing"))
        losing == Role(SelectSeq(mine, LAMBDA rec :
                      ~rec.is_starter /\ rec.sub_entry_situation = "losing"))
        total_minutes_played == SumColumn(mine, "minutes_played")
        available == Cardinality(UniqueDates(df)) * 90
    IN  [player_name |-> player_name,
         total_minutes_played |-> total_minutes_played,
         avg_indice_competitividad |-> Mean(mine, "indice_competitividad"),
         sum_played_gd |-> SumColumn(mine, "played_gd"),
         sum_diff_points |-> SumColumn(mine, "diff_points"),
         n_games |-> Len(SelectSeq(mine, LAMBDA rec : rec.match_date.kind # None)),
         indice_titular |-> starter.indice,
         minutes_titular |-> starter.minutes,
         indice_suplente_ganando |-> winning.indice,
         minutes_suplente_ganando |-> winning.minutes,
         indice_suplente_empatando |-> drawing.indice,
         minutes_suplente_empatando |-> drawing.minutes,
         indice_suplente_perdiendo |-> losing.indice,
         minutes_suplente_perdiendo |-> losing.minutes,
         pct_minutes_played |->
             [num |-> IF total_minutes_played > available THEN available
                      ELSE total_minutes_played,
              den |-> available]]

\* lines 1075-1124: the frame returned, one row per player name
PlayerFrame(records) ==
    IF records = <<>> THEN [kind |-> "DataFrame", rows |-> <<>>]
    ELSE LET names == SelectSeq(PlayerOrder,
                          LAMBDA name : \E i \in 1..Len(records) :
                                            records[i].player_name = name)
         IN  [kind |-> "DataFrame",
              rows |-> [i \in 1..Len(names) |-> PlayerRow(records, names[i])]]

-----------------------------------------------------------------------------
(* The corpus: match documents as fetched from the API *)

Contestants(home, away) ==
    << [position |-> "home", name |-> home, id |-> TeamId[home]],
       [position |-> "away", name |-> away, id |-> TeamId[away]] >>

\* the goal list of a match whose goals fell to the given sides in this order
GoalList(sides, home, away) ==
    [i \in 1..Len(sides) |->
        [periodId |-> IF i = 1 THEN 1 ELSE 2,
         timeMin |-> 30 * i,
         contestantId |-> IF sides[i] = "home" THEN TeamId[home]
                          ELSE TeamId[away]]]

CountSide(sides, side) == Cardinality({i \in 1..Len(sides) : sides[i] = side})

\* the players of a lineup block: a starter and a player on the bench
Players(team) ==
    << [playerId |-> PlayerId[Squad[team][1]], matchName |-> Squad[team][1],
        position |-> "Defender", gameStarted |-> TRUE,
        stat |-> <<[type |-> "minsPlayed", value |-> "90"]>>],
       [playerId |-> PlayerId[Squad[team][2]], matchName |-> Squad[team][2],
        position |-> "Substitute", gameStarted |-> FALSE,
        stat |-> <<[type |-> "totalSubOn", value |-> "1"],
                   [type |-> "minsPlayed", value |-> "30"]>>] >>

LineUp(team, red) ==
    [contestantId |-> TeamId[team], totalRedCard |-> red,
     player |-> Players(team),
     teamOfficial |-> <<[type |-> "manager", name |-> Manager[team]]>>]

LineUps(home, away, red) == <<LineUp(home, red), LineUp(away, 0)>>

\* the home side brings its bench player on for its starter at minute 60
Substitutions(home) ==
    << [contestantId |-> TeamId[home], playerOnId |-> PlayerId[Squad[home][2]],
        playerOffId |-> PlayerId[Squad[home][1]], timeMin |-> 60] >>

NoScores == [present |-> FALSE, home |-> 0, away |-> 0]

\* a complete document of the k-th match of the calendar, played, its score
\* consistent with its goals
PlayedDoc(k, sides, red) ==
    LET home == Schedule[k][1]
        away == Schedule[k][2]
    IN  [matchInfo |-> TRUE,
         id |-> k,
         date |-> [kind |-> "Z", day |-> k],
         contestant |-> Contestants(home, away),
         liveData |-> TRUE,
         matchDetails |-> TRUE,
         matchStatus |-> "Played",
         scores |-> [present |-> TRUE, home |-> CountSide(sides, "home"),
                     away |-> CountSide(sides, "away")],
         goal |-> GoalList(sides, home, away),
         lineUp |-> LineUps(home, away, red),
         substitute |-> Substitutions(home)]

\* who scored, goal by goal
Outcomes == UNION {[1..n -> {"home", "away"}] : n \in 0..MaxGoals}

ShortOutcomes == {o \in Outcomes : Len(o) < MaxGoals}

\* a match still in play: a score and a goal, but not 'Played'
PlayingDoc(k) == [PlayedDoc(k, <<"home">>, 0) EXCEPT !.matchStatus = "Playing"]

\* documents extract_match_result may have to turn down
DefectiveDocs(k) ==
    LET base == PlayedDoc(k, <<"home">>, 0)
    IN  { [base EXCEPT !.matchInfo = FALSE],
          [base EXCEPT !.liveData = FALSE, !.matchDetails = FALSE,
                       !.scores = NoScores, !.goal = <<>>, !.lineUp = <<>>,
                       !.substitute = <<>>],
          [base EXCEPT !.matchDetails = FALSE],
          [base EXCEPT !.matchStatus = "Fixture", !.scores = NoScores,
                       !.goal = <<>>, !.lineUp = <<>>, !.substitute = <<>>],
          PlayingDoc(k),
          [base EXCEPT !.contestant[1].position = None],
          [base EXCEPT !.contestant[2].position = None],
          [base EXCEPT !.scores = NoScores] }

\* the corpora of at most n documents, the k-th drawn from Docs[k]
RECURSIVE Corpora(_, _)
Corpora(n, Docs) ==
    IF n = 0 THEN {<<>>}
    ELSE LET shorter == Corpora(n - 1, Docs)
         IN  shorter \cup {Append(ms, doc) :
                              ms \in {c \in shorter : Len(c) = n - 1},
                              doc \in Docs[n]}

DataOf(corpora) ==
    {[hasMatches |-> FALSE, matches |-> <<>>]}
    \cup {[hasMatches |-> TRUE, matches |-> ms] : ms \in corpora}

-----------------------------------------------------------------------------
(* StatsPerformClient (src/stats_perform_client.py): the retry loop of     *)
(* _request.  Times are in tenths of a second.  An exception is the name   *)
(* of its class; the absence of one is None.                               *)

\* config.py: the retries and the first backoff the downloader configures
MAX_RETRIES == 3

BACKOFF_SECONDS == 15

\* line 196: the backoff doubles up to one minute
MaxDelay == 600

\* line 91
max_token_retries == 3

\* the largest max_retries a client is constructed with
MaxRetries == 2

\* no response has been returned
NoStatus == 0

\* what one call of session.request can do (line 170): answer with a status
\* code, or raise; TooManyRedirects stands for the exceptions of requests
\* that are neither a ConnectionError nor a Timeout
StatusCodes == {200, 404, 500, 503}

RequestExceptions == {"ConnectionError", "Timeout", "TooManyRedirects"}

Answered(status_code) == [status_code |-> status_code, exc |-> None]

Threw(exc) == [status_code |-> NoStatus, exc |-> exc]

SessionOutcomes ==
    {Answered(c) : c \in StatusCodes} \cup {Threw(e) : e \in RequestExceptions}

\* line 183: the exceptions the loop catches
CaughtWithoutTimeout == {"ConnectionError", "HTTPError"}

Caught == {"ConnectionError", "Timeout", "HTTPError"}

\* lines 170-181: the exception an attempt ends with, None if it returns
AttemptError(outcome) ==
    IF outcome.exc # None THEN outcome.exc
    ELSE IF outcome.status_code >= 500 THEN "HTTPError"
    ELSE None

\* _get_oauth_token, lines 86-130: the cached token if it has not expired,
\* else up to max_token_retries requests for one; replies[k] tells whether
\* the k-th of them yields a token; the last failure is raised
get_oauth_token(valid, replies) ==
    IF valid \/ (\E k \in 1..max_token_retries : replies[k])
    THEN "token" ELSE "raise"

TokenReplies == [1..max_token_retries -> BOOLEAN]

\* a client nobody is calling
ClientAtRest(retries) ==
    /\ max_retries \in retries
    /\ request_pc = "idle"
    /\ attempt = 0
    /\ delay = 0
    /\ last_exc = None
    /\ raised = None
    /\ resp = NoStatus
    /\ tried = <<>>

\* the client download_all_matches constructs, lines 95-105
InitClient ==
    /\ ClientAtRest({MAX_RETRIES})
    /\ use_oauth = TRUE
    /\ token_valid = FALSE

\* _request(method, url, **kwargs) is called: lines 165-166
Request ==
    /\ request_pc = "idle"
    /\ request_pc' = "headers"
    /\ delay' = BACKOFF_SECONDS
    /\ last_exc' = None
    /\ UNCHANGED <<max_retries, use_oauth, token_valid, attempt, raised, resp, tried>>
    /\ UNCHANGED <<data, op, args, analytics, perMatch, store>>

\* lines 160-163: the authentication headers, before the first attempt
PrepareRequestHeaders(replies) ==
    /\ request_pc = "headers"
    /\ IF use_oauth /\ get_oauth_token(token_valid, replies) = "raise"
       THEN /\ request_pc' = "raised"
            /\ raised' = "TokenError"
            /\ UNCHANGED token_valid
       ELSE /\ request_pc' = "loop"
            /\ token_valid' = (use_oauth \/ token_valid)
            /\ UNCHANGED raised
    /\ UNCHANGED <<max_retries, use_oauth, attempt, delay, last_exc, resp, tried>>
    /\ UNCHANGED <<data, op, args, analytics, perMatch, store>>

\* lines 168-196: one pass of the loop body
Attempt(outcome) ==
    /\ request_pc = "loop"
    /\ attempt < max_retries
    /\ attempt' = attempt + 1
    /\ tried' = Append(tried, outcome)
    /\ LET e == AttemptError(outcome)
       IN  IF e = None
           THEN /\ request_pc' = "returned"
                /\ resp' = outcome.status_code
                /\ UNCHANGED <<last_exc, raised, delay>>
           ELSE IF e \notin Caught
           THEN /\ request_pc' = "raised"
                /\ raised' = e
                /\ UNCHANGED <<last_exc, resp, delay>>
           ELSE /\ last_exc' = e
                /\ IF attempt' = max_retries
                   THEN /\ request_pc' = "raised"
                        /\ raised' = e
                        /\ UNCHANGED delay
                   ELSE /\ delay' = IF delay * 2 < MaxDelay THEN delay * 2
                                    ELSE MaxDelay
                        /\ UNCHANGED <<request_pc, raised>>
                /\ UNCHANGED resp
    /\ UNCHANGED <<max_retries, use_oauth, token_valid>>
    /\ UNCHANGED <<data, op, args, analytics, perMatch, store>>

\* lines 198-199: the loop ended without returning or raising
AfterLoop ==
    /\ request_pc = "loop"
    /\ attempt >= max_retries
    /\ request_pc' = "raised"
    /\ raised' = IF last_exc = None THEN "AssertionError" ELSE last_exc
    /\ UNCHANGED <<max_retries, use_oauth, token_valid, attempt, delay, last_exc, resp, tried>>
    /\ UNCHANGED <<data, op, args, analytics, perMatch, store>>

-----------------------------------------------------------------------------
(* The consolidated file of downloaded matches                             *)

(* (src/download_all_matches.py) and its automatic update                   *)
(* (src/update_utils.py).  An element of the file's 'matches' list, and a  *)
(* cache file, is [id, matchInfo]: a match document whose matchInfo.id is  *)
(* id, or, with matchInfo FALSE, a payload without a matchInfo block that  *)
(* was obtained for id and is cached under that name.                      *)

\* the match ids of the season, in the order the schedule lists them
MatchIds == {"m1", "m2"}

ScheduleOrder == <<"m1", "m2">>

Document(id) == [id |-> id, matchInfo |-> TRUE]

Payload(id) == [id |-> id, matchInfo |-> FALSE]

NoFile == [exists |-> FALSE, matches |-> <<>>]

\* what get_tournament_schedule can do, lines 110-124: raise, answer with
\* something that has no 'matchDate' (an error document), or answer with a
\* schedule; date[id] tells whether id is listed and under which date:
\* "future" is a date after today, "played" any other (one that is not
\* after today, that does not parse or that is missing: lines 139-148 keep
\* all of these)
ScheduleDates == {"absent", "played", "future"}

NotListed == [id \in MatchIds |-> "absent"]

ScheduleReplies ==
    {[kind |-> "raise", date |-> NotListed],
     [kind |-> "other", date |-> NotListed]}
    \cup {[kind |-> "schedule", date |-> d] : d \in [MatchIds -> ScheduleDates]}

\* what get_match_stats_by_id can do, lines 212-237: fail ("errorCode": it
\* raises or answers with an error document, lines 218-221 and 234-237 do
\* the same), answer with the match document, or with another payload
MatchReplies == {"errorCode", "document", "payload"}

\* load_existing_matches, lines 24-54: the index of the documents of the
\* file that have a matchInfo id, in the order of their first occurrence
RECURSIVE IndexMatches(_, _)
IndexMatches(matches, existing) ==
    IF matches = <<>> THEN existing
    ELSE LET match == Head(matches)
         IN  IndexMatches(Tail(matches),
                 IF match.matchInfo /\ ~(\E k \in 1..Len(existing) : existing[k].id = match.id)
                 THEN Append(existing, match) ELSE existing)

load_existing_matches(file) ==
    IF ~file.exists THEN <<>> ELSE IndexMatches(file.matches, <<>>)

Keys(existing) == {existing[k].id : k \in 1..Len(existing)}

\* lines 128-163: the ids of the schedule, without the future ones when
\* only_played
RECURSIVE ListedIds(_, _, _)
ListedIds(order, schedule, only_played) ==
    IF order = <<>> THEN <<>>
    ELSE LET id == Head(order)
             rest == ListedIds(Tail(order), schedule, only_played)
         IN  IF schedule.kind # "schedule" \/ schedule.date[id] = "absent" THEN rest
             ELSE IF only_played /\ schedule.date[id] = "future" THEN rest
             ELSE <<id>> \o rest

\* line 172
RECURSIVE NewMatchIds(_, _)
NewMatchIds(match_ids, existing) ==
    IF match_ids = <<>> THEN <<>>
    ELSE IF Head(match_ids) \in Keys(existing) THEN NewMatchIds(Tail(match_ids), existing)
    ELSE <<Head(match_ids)>> \o NewMatchIds(Tail(match_ids), existing)

\* lines 171-177: the ids the loop of line 195 goes through
MatchIdsToDownload(file, incremental, only_played, schedule) ==
    LET existing_matches == IF incremental THEN load_existing_matches(file) ELSE <<>>
        match_ids == ListedIds(ScheduleOrder, schedule, only_played)
    IN  IF incremental /\ existing_matches # <<>>
        THEN NewMatchIds(match_ids, existing_matches) ELSE match_ids

Cached(cache, id) == \E e \in cache : e.id = id

CacheFile(cache, id) == CHOOSE e \in cache : e.id = id

\* line 190
AllMatchesDataFromNothing(incremental, existing_matches) == <<>>

AllMatchesData(incremental, existing_matches) ==
    IF incremental THEN existing_matches ELSE <<>>

\* lines 195-237: the loop over the ids to download
RECURSIVE DownloadEach(_, _, _)
DownloadEach(match_ids, replies, acc) ==
    IF match_ids = <<>> THEN acc
    ELSE LET match_id == Head(match_ids)
             next ==
                 IF Cached(acc.cache, match_id)
                 THEN [acc EXCEPT !.all_matches_data = Append(@, CacheFile(acc.cache, match_id)),
                                  !.skipped = @ + 1]
                 ELSE IF replies[match_id] = "errorCode"
                 THEN [acc EXCEPT !.requested = Append(@, match_id),
                                  !.errors = @ + 1]
                 ELSE LET match_data == IF replies[match_id] = "document"
                                        THEN Document(match_id) ELSE Payload(match_id)
                      IN  [acc EXCEPT !.requested = Append(@, match_id),
                                      !.cache = @ \cup {match_data},
                                      !.all_matches_data = Append(@, match_data),
                                      !.successful = @ + 1]
         IN  DownloadEach(Tail(match_ids), replies, next)

NoDownload == [kind |-> "not called", totalMatches |-> 0, newDownloads |-> 0, errors |-> 0, fromCache |-> 0]

ReturnsNone == [NoDownload EXCEPT !.kind = "None"]

RaisesOSError == [NoDownload EXCEPT !.kind = "OSError"]

\* download_all_matches, lines 57-282: the file, the cache, the ids asked
\* of the API, what is returned and whether the schedule was obtained;
\* writable tells whether line 261 can open the file
download_all_matches(file, cache, only_played, incremental, schedule, replies, writable) ==
    LET existing_matches == IF incremental THEN load_existing_matches(file) ELSE <<>>
        match_ids == MatchIdsToDownload(file, incremental, only_played, schedule)
        done == DownloadEach(match_ids, replies,
                    [all_matches_data |-> AllMatchesData(incremental, existing_matches),
                     cache |-> cache, requested |-> <<>>,
                     successful |-> 0, errors |-> 0, skipped |-> 0])
    IN  IF schedule.kind = "raise"
        THEN [output_file |-> file, match_cache |-> cache, requested |-> <<>>,
              result |-> ReturnsNone, schedule_fetched |-> FALSE]
        ELSE IF incremental /\ existing_matches # <<>> /\ match_ids = <<>>
        THEN [output_file |-> file, match_cache |-> cache, requested |-> <<>>,
              result |-> ReturnsNone, schedule_fetched |-> TRUE]
        ELSE IF ~writable
        THEN [output_file |-> file, match_cache |-> done.cache,
              requested |-> done.requested,
              result |-> RaisesOSError, schedule_fetched |-> TRUE]
        ELSE [output_file |-> [exists |-> TRUE, matches |-> done.all_matches_data],
              match_cache |-> done.cache, requested |-> done.requested,
              result |-> [kind |-> "dict",
                          totalMatches |-> Len(done.all_matches_data),
                          newDownloads |-> done.successful,
                          errors |-> done.errors, fromCache |-> done.skipped],
              schedule_fetched |-> TRUE]

\* needs_update, lines 10-49: stale tells whether the lastUpdate of the
\* file is max_hours old
needs_update(file, stale) == ~file.exists \/ stale

NoUpdate == [updated |-> FALSE, reason |-> "not called", newMatches |-> 0, totalMatches |-> 0]

InitStore ==
    /\ output_file = NoFile
    /\ match_cache = {}
    /\ requested = <<>>
    /\ download_result = NoDownload
    /\ schedule_fetched = FALSE
    /\ update_result = NoUpdate

\* one reply for each id the loop goes through
RepliesFor(match_ids) ==
    {r \in [MatchIds -> MatchReplies \cup {"not asked"}] :
        \A id \in MatchIds : (r[id] = "not asked") <=> ~In(match_ids, id)}

\* the ids of a list
IdsOf(match_ids) == {match_ids[k] : k \in 1..Len(match_ids)}

\* download_all_matches(only_played = only_played, incremental = incremental)
DownloadAllMatches(only_played, incremental, schedule, writable) ==
    /\ \E replies \in RepliesFor(MatchIdsToDownload(output_file, incremental, only_played, schedule)) :
          \E run \in {download_all_matches(output_file, match_cache, only_played,
                                            incremental, schedule, replies, writable)} :
              /\ output_file' = run.output_file
              /\ match_cache' = run.match_cache
              /\ requested' = run.requested
              /\ download_result' = run.result
              /\ schedule_fetched' = run.schedule_fetched
    /\ op' = "download_all_matches"
    /\ args' = [incremental |-> incremental, downloaded |-> TRUE,
                listed |-> IdsOf(ListedIds(ScheduleOrder, schedule, only_played))]
    /\ UNCHANGED update_result
    /\ UNCHANGED <<data, analytics, perMatch, client>>

\* auto_update_if_needed(force = force), lines 100-171
AutoUpdateIfNeeded(force, stale, schedule, writable) ==
    /\ op' = "auto_update_if_needed"
    /\ IF ~force /\ ~needs_update(output_file, stale)
       THEN /\ update_result' = [NoUpdate EXCEPT !.reason = "not_needed"]
            /\ args' = [incremental |-> TRUE, downloaded |-> FALSE, listed |-> {}]
            /\ UNCHANGED <<output_file, match_cache, requested, download_result, schedule_fetched>>
       ELSE /\ args' = [incremental |-> TRUE, downloaded |-> TRUE,
                        listed |-> IdsOf(ListedIds(ScheduleOrder, schedule, TRUE))]
            /\ \E replies \in RepliesFor(MatchIdsToDownload(output_file, TRUE, TRUE, schedule)) :
                  \E run \in {download_all_matches(output_file, match_cache, TRUE,
                                                    TRUE, schedule, replies, writable)} :
                      /\ output_file' = run.output_file
                      /\ match_cache' = run.match_cache
                      /\ requested' = run.requested
                      /\ download_result' = run.result
                      /\ schedule_fetched' = run.schedule_fetched
                      /\ update_result' =
                             IF run.result.kind = "None"
                             THEN [NoUpdate EXCEPT !.reason = "no_new_matches"]
                             ELSE IF run.result.kind = "dict"
                             THEN [updated |-> TRUE, reason |-> None,
                                   newMatches |-> run.result.newDownloads,
                                   totalMatches |-> run.result.totalMatches]
                             ELSE [NoUpdate EXCEPT !.reason = "error"]
    /\ UNCHANGED <<data, analytics, perMatch, client>>

-----------------------------------------------------------------------------
(* The state machine: a corpus is loaded, then one entry point is called *)

MatchTypes == {"Todos", "Local", "Visitante"}

NoArgs == [match_type |-> None]

InitCorpus(corpora) ==
    /\ data \in DataOf(corpora)
    /\ op = "none"
    /\ args = NoArgs
    /\ match_result = NoResult
    /\ goal_flags = NoFlags
    /\ top_teams_list = NoneList
    /\ standings = NoneFrame
    /\ player_match_records = <<>>
    /\ filtered_stats = NoStats
    /\ df_player = NoneFrame
    /\ player_minutes = <<>>
    /\ team_segments = <<>>
    /\ end_time = NoMinute

\* the analytics engine on its own: the data service is at rest
InitWith(corpora) ==
    /\ InitCorpus(corpora)
    /\ InitClient
    /\ InitStore

\* extract_match_result(data['matches'][i])
ExtractMatchResult(i) ==
    /\ op = "none"
    /\ i \in 1..Len(data.matches)
    /\ op' = "extract_match_result"
    /\ args' = [match |-> i]
    /\ match_result' = extract_match_result(data.matches[i])
    /\ UNCHANGED <<data, goal_flags, top_teams_list, standings,
                   player_match_records, filtered_stats, df_player,
                   player_minutes, perMatch, service>>

\* analyze_match_goals(extract_match_result(data['matches'][i]), team_name)
AnalyzeMatchGoals(i, team_name) ==
    /\ op = "none"
    /\ i \in 1..Len(data.matches)
    /\ op' = "analyze_match_goals"
    /\ args' = [match |-> i, team_name |-> team_name]
    /\ match_result' = extract_match_result(data.matches[i])
    /\ goal_flags' = analyze_match_goals(match_result', team_name)
    /\ UNCHANGED <<data, top_teams_list, standings, player_match_records,
                   filtered_stats, df_player, player_minutes, perMatch, service>>

\* build_standings_table(data, match_type, top_n_range, date_range,
\*                       rival_teams, advanced_filters)
BuildStandingsTable(match_type, top_n_range, date_range, rival_teams, advanced_filters) ==
    /\ op = "none"
    /\ op' = "build_standings_table"
    /\ args' = [match_type |-> match_type, top_n_range |-> top_n_range,
                date_range |-> date_range, rival_teams |-> rival_teams,
                advanced_filters |-> advanced_filters]
    /\ LET built == BuildStandings(data, match_type, top_n_range, date_range,
                                   rival_teams, advanced_filters)
       IN  /\ standings' = built.standings
           /\ top_teams_list' = built.top_teams_list
    /\ data' = CorpusAfterStandings(data, match_type, top_n_range, date_range,
                                    rival_teams, advanced_filters)
    /\ UNCHANGED <<match_result, goal_flags, player_match_records,
                   filtered_stats, df_player, player_minutes, perMatch, service>>

\* build_standings_table called a second time with the arguments of the
\* first call, on the corpus as the first call left it
BuildStandingsTableAgain ==
    /\ op = "build_standings_table"
    /\ op' = "build_standings_table_again"
    /\ LET built == BuildStandings(data, args.match_type, args.top_n_range,
                                   args.date_range, args.rival_teams,
                                   args.advanced_filters)
       IN  /\ standings' = built.standings
           /\ top_teams_list' = built.top_teams_list
    /\ data' = CorpusAfterStandings(data, args.match_type, args.top_n_range,
                                    args.date_range, args.rival_teams,
                                    args.advanced_filters)
    /\ UNCHANGED <<args, match_result, goal_flags, player_match_records,
                   filtered_stats, df_player, player_minutes, perMatch, service>>

\* calculate_competitiveness_index(data, team_name, include_players,
\*                                 exclude_players, manager, date_range)
\* the records of line 1073 and the frame returned
CalculateCompetitivenessIndex(team_name, include_players, exclude_players, manager, date_range) ==
    /\ op = "none"
    /\ op' = "calculate_competitiveness_index"
    /\ args' = [team_name |-> team_name, include_players |-> include_players,
                exclude_players |-> exclude_players, manager |-> manager,
                date_range |-> date_range]
    /\ player_match_records' =
           IF ~data.hasMatches THEN <<>>
           ELSE PlayerMatchRecords(data.matches, team_name, include_players,
                                   exclude_players, manager, date_range)
    /\ df_player' = PlayerFrame(player_match_records')
    /\ UNCHANGED <<data, match_result, goal_flags, top_teams_list, standings,
                   filtered_stats, player_minutes, perMatch, service>>

\* calculate_team_stats_with_players(data, team_name, include_players,
\*                                   exclude_players, manager)
CalculateTeamStatsWithPlayers(team_name, include_players, exclude_players, manager) ==
    /\ op = "none"
    /\ op' = "calculate_team_stats_with_players"
    /\ args' = [team_name |-> team_name, include_players |-> include_players,
                exclude_players |-> exclude_players, manager |-> manager]
    /\ filtered_stats' =
           calculate_team_stats_with_players(data, team_name, include_players,
                                             exclude_players, manager)
    /\ UNCHANGED <<data, match_result, goal_flags, top_teams_list, standings,
                   player_match_records, df_player, player_minutes, perMatch, service>>

\* get_minutes_played_by_player(data, team_name, include_players,
\*                              exclude_players, manager, date_range)
GetMinutesPlayedByPlayer(team_name, include_players, exclude_players, manager, date_range) ==
    /\ op = "none"
    /\ op' = "get_minutes_played_by_player"
    /\ args' = [team_name |-> team_name, include_players |-> include_players,
                exclude_players |-> exclude_players, manager |-> manager,
                date_range |-> date_range]
    /\ player_minutes' =
           get_minutes_played_by_player(data, team_name, include_players,
                                        exclude_players, manager, date_range)
    /\ UNCHANGED <<data, match_result, goal_flags, top_teams_list, standings,
                   player_match_records, filtered_stats, df_player, perMatch, service>>

\* get_player_segments_in_match(data['matches'][i], team_name)
GetPlayerSegmentsInMatch(i, team_name) ==
    /\ op = "none"
    /\ i \in 1..Len(data.matches)
    /\ op' = "get_player_segments_in_match"
    /\ args' = [match |-> i, team_name |-> team_name]
    /\ team_segments' = get_player_segments_in_match(data.matches[i], team_name)
    /\ UNCHANGED <<data, analytics, end_time, service>>

\* get_match_end_time(match, get_goals_timeline(match, team_name)) for
\* match = data['matches'][i], lines 993-994
GetMatchEndTime(i, team_name) ==
    /\ op = "none"
    /\ i \in 1..Len(data.matches)
    /\ op' = "get_match_end_time"
    /\ args' = [match |-> i, team_name |-> team_name]
    /\ end_time' = get_match_end_time(data.matches[i],
                       get_goals_timeline(data.matches[i], team_name))
    /\ UNCHANGED <<data, analytics, team_segments, service>>

-----------------------------------------------------------------------------
(* Spec: the standings of a corpus of played matches under venue, opponent *)
(* and goal-sequence filters                                               *)

StandingsDocs == [k \in 1..MaxMatches |->
                    {PlayedDoc(k, sides, 0) : sides \in Outcomes}
                    \cup {PlayingDoc(k)}]

\* (top_n_range, rival_teams)
OpponentArgs ==
    { << <<>>, <<>> >>, << <<>>, <<"A">> >>, << <<>>, <<"B", "C">> >> }

GoalFilters ==
    { NoFilters,
      [NoFilters EXCEPT !.scored_first = TRUE],
      [NoFilters EXCEPT !.comeback = TRUE] }

Init == InitWith(Corpora(MaxMatches, StandingsDocs))

Next ==
    \/ \E i \in 1..MaxMatches : ExtractMatchResult(i)
    \/ \E match_type \in MatchTypes, o \in OpponentArgs,
          advanced_filters \in GoalFilters :
          BuildStandingsTable(match_type, o[1], <<>>, o[2], advanced_filters)

Spec == Init /\ [][Next]_vars

-----------------------------------------------------------------------------
(* SpecGoals: the goal-sequence analysis of one match, its goal list in any *)
(* source order and its score block independent of the goal list           *)

GoalEvents ==
    [periodId : {1, 2}, timeMin : {10, 50}, contestantId : {TeamId["A"], TeamId["B"]}]

GoalLists == UNION {[1..n -> GoalEvents] : n \in 0..MaxGoalEvents}

GoalDocs ==
    {[PlayedDoc(1, <<>>, 0) EXCEPT
         !.scores = [present |-> TRUE, home |-> h, away |-> a],
         !.goal = goals] :
     h \in 0..MaxGoals, a \in 0..MaxGoals, goals \in GoalLists}

InitGoals == InitWith({<<doc>> : doc \in GoalDocs})

NextGoals ==
    \E team_name \in {Schedule[1][1], Schedule[1][2]} :
        AnalyzeMatchGoals(1, team_name)

SpecGoals == InitGoals /\ [][NextGoals]_vars

-----------------------------------------------------------------------------
(* SpecOpponents: the opponent restriction, from an explicit list of rivals *)
(* or from a range of positions, under venue, date and match filters       *)

OpponentDocs == [k \in 1..MaxMatches |->
                    {PlayedDoc(k, sides, 0) : sides \in ShortOutcomes}
                    \cup {PlayedDoc(k, <<>>, 1)}]

TopRanges == {<<1, 1>>, <<1, 2>>, <<2, 3>>}

RivalLists == {<<>>, <<"A">>, <<"B", "C">>}

DateRanges == {<<>>, <<2, 3>>}

MatchFilters ==
    { NoFilters,
      [NoFilters EXCEPT !.conceded_first = TRUE],
      [NoFilters EXCEPT !.no_red_cards = TRUE] }

InitOpponents == InitWith(Corpora(MaxMatches, OpponentDocs))

NextOpponents ==
    \E match_type \in MatchTypes, top_n_range \in TopRanges,
       date_range \in DateRanges, rival_teams \in RivalLists,
       advanced_filters \in MatchFilters :
       BuildStandingsTable(match_type, top_n_range, date_range, rival_teams,
                           advanced_filters)

SpecOpponents == InitOpponents /\ [][NextOpponents]_vars

-----------------------------------------------------------------------------
(* SpecExtract: corpora with documents extract_match_result may turn down,
   read by the standings table and by the player index *)

ExtractDocs ==
    [k \in 1..MaxMatches |->
        DefectiveDocs(k) \cup {PlayedDoc(k, sides, 0) : sides \in ShortOutcomes}]

RivalArgs == { <<>>, <<"A">> }

FirstGoalFilters == { NoFilters, [NoFilters EXCEPT !.scored_first = TRUE] }

NoPlayerFilters ==
    [include_players |-> <<>>, exclude_players |-> <<>>, manager |-> "",
     date_range |-> <<>>]

PlayerFilters ==
    { NoPlayerFilters,
      [NoPlayerFilters EXCEPT !.include_players = <<"A1">>],
      [NoPlayerFilters EXCEPT !.exclude_players = <<"B1">>],
      [NoPlayerFilters EXCEPT !.manager = "MC"],
      [NoPlayerFilters EXCEPT !.date_range = <<2, 3>>] }

StarterFilters == {f \in PlayerFilters : f.date_range = <<>>}

InitExtract == InitWith(Corpora(MaxMatches, ExtractDocs))

NextExtract ==
    \/ \E i \in 1..MaxMatches : ExtractMatchResult(i)
    \/ \E match_type \in MatchTypes, rival_teams \in RivalArgs,
          advanced_filters \in FirstGoalFilters :
          BuildStandingsTable(match_type, <<>>, <<>>, rival_teams,
                              advanced_filters)
    \/ \E team_name \in Teams, f \in PlayerFilters :
          CalculateCompetitivenessIndex(team_name, f.include_players,
              f.exclude_players, f.manager, f.date_range)
    \/ \E team_name \in Teams, f \in StarterFilters :
          CalculateTeamStatsWithPlayers(team_name, f.include_players,
              f.exclude_players, f.manager)

SpecExtract == InitExtract /\ [][NextExtract]_vars

-----------------------------------------------------------------------------
(* SpecTwice: the standings table built twice over a corpus whose goal     *)
(* lists are not all in order of play                                      *)

Reverse(seq) == [i \in 1..Len(seq) |-> seq[Len(seq) + 1 - i]]

\* the second goal of the match listed before the first
OutOfOrderDoc(k, sides) == [PlayedDoc(k, sides, 0) EXCEPT !.goal = Reverse(@)]

TwiceDocs ==
    [k \in 1..MaxMatches |->
        { PlayedDoc(k, <<>>, 0), PlayedDoc(k, <<"home">>, 0),
          PlayedDoc(k, <<>>, 1), PlayingDoc(k),
          OutOfOrderDoc(k, <<"away", "home">>),
          OutOfOrderDoc(k, <<"home", "home">>) }]

InitTwice == InitWith(Corpora(MaxMatches, TwiceDocs))

NextTwice ==
    \/ \E match_type \in MatchTypes, date_range \in DateRanges,
          rival_teams \in RivalArgs, advanced_filters \in MatchFilters :
          BuildStandingsTable(match_type, <<>>, date_range, rival_teams,
                              advanced_filters)
    \/ BuildStandingsTableAgain

SpecTwice == InitTwice /\ [][NextTwice]_vars

-----------------------------------------------------------------------------
(* SpecPlayers: the player index of one match, its goals at any of three   *)
(* minutes and its home side substituting at different minutes             *)

TimedGoals ==
    { [periodId |-> IF t < 46 THEN 1 ELSE 2, timeMin |-> t, contestantId |-> c] :
          t \in {10, 70, 95}, c \in {TeamId["A"], TeamId["B"]} }

TimedGoalLists == UNION {[1..n -> TimedGoals] : n \in 0..MaxGoalEvents}

\* the home side leaves its starter on, or brings its bench player on for
\* him at the kick-off, at minute 70 or in added time
SubstitutionMinutes == {0, 70, 92}

SubstitutionLists ==
    {<<>>} \cup {<<[Substitutions("A")[1] EXCEPT !.timeMin = t]>> :
                    t \in SubstitutionMinutes}

PlayerDocs ==
    { [PlayedDoc(1, <<>>, 0) EXCEPT
          !.goal = goals,
          !.scores = [present |-> TRUE,
                      home |-> Len(SelectSeq(goals,
                                  LAMBDA g : g.contestantId = TeamId["A"])),
                      away |-> Len(SelectSeq(goals,
                                  LAMBDA g : g.contestantId = TeamId["B"]))],
          !.substitute = subs] :
      goals \in TimedGoalLists, subs \in SubstitutionLists }

InitPlayers == InitWith({<<doc>> : doc \in PlayerDocs})

NextPlayers ==
    \E team_name \in {Schedule[1][1], Schedule[1][2]},
       f \in {NoPlayerFilters, [NoPlayerFilters EXCEPT !.manager = "MA"]} :
       CalculateCompetitivenessIndex(team_name, f.include_players,
           f.exclude_players, f.manager, f.date_range)

SpecPlayers == InitPlayers /\ [][NextPlayers]_vars

-----------------------------------------------------------------------------
(* SpecVenues: short matches under every venue mode, with the opponents *)
(* restricted by name or by rank                                         *)

VenueDocs == [k \in 1..MaxMatches |->
                 {PlayedDoc(k, sides, 0) : sides \in ShortOutcomes}
                 \cup {PlayingDoc(k)}]

\* (top_n_range, rival_teams)
VenueOpponents ==
    { << <<>>, <<>> >>, << <<2, 3>>, <<>> >>,
      << <<>>, <<"A">> >>, << <<>>, <<"B", "C">> >> }

InitVenues == InitWith(Corpora(MaxMatches, VenueDocs))

NextVenues ==
    \E match_type \in MatchTypes, o \in VenueOpponents,
       advanced_filters \in FirstGoalFilters :
       BuildStandingsTable(match_type, o[1], <<>>, o[2], advanced_filters)

SpecVenues == InitVenues /\ [][NextVenues]_vars

-----------------------------------------------------------------------------
(* SpecSegments: one match whose substitution list names either side and *)
(* brings players on and off in any order                                *)

\* a substitution recorded for either side: the bench player of A for its
\* starter, the reverse, or the bench player of B for its starter, at the
\* kick-off, at minute 60 or in added time
Swaps ==
    { [contestantId |-> TeamId[side], playerOnId |-> PlayerId[pair[1]],
       playerOffId |-> PlayerId[pair[2]], timeMin |-> t] :
      side \in {"A", "B"},
      pair \in {<<"A2", "A1">>, <<"A1", "A2">>, <<"B2", "B1">>},
      t \in {0, 60, 97} }

SwapLists == UNION {[1..n -> Swaps] : n \in 0..MaxSubs}

\* no goal, or one goal in added time
LateGoalLists ==
    { <<>>, <<[periodId |-> 2, timeMin |-> 95, contestantId |-> TeamId["A"]]>> }

SegmentDocs ==
    { [PlayedDoc(1, <<>>, 0) EXCEPT
          !.goal = goals,
          !.scores = [present |-> TRUE, home |-> Len(goals), away |-> 0],
          !.substitute = subs] :
      goals \in LateGoalLists, subs \in SwapLists }

InitSegments == InitWith({<<doc>> : doc \in SegmentDocs})

NextSegments ==
    \/ \E team_name \in {"A", "B"} : GetPlayerSegmentsInMatch(1, team_name)
    \/ \E team_name \in {"A", "B"} : GetMatchEndTime(1, team_name)
    \/ \E team_name \in {"A", "B"} :
          CalculateCompetitivenessIndex(team_name, <<>>, <<>>, "", <<>>)

SpecSegments == InitSegments /\ [][NextSegments]_vars

-----------------------------------------------------------------------------
(* SpecDates: corpora whose dates come in every shape, under a date range, *)
(* read by the standings table and by the two player paths                 *)

\* the dates a document may carry: a calendar day alone ("plain"), followed
\* by the zone marker ("Z"), followed by a time of day ("T"), some other
\* text ("bad"), or no date at all
Dates ==
    {[kind |-> kind, day |-> day] : kind \in {"plain", "Z", "T"}, day \in 1..4}
    \cup {[kind |-> "bad", day |-> 0], [kind |-> None, day |-> 0]}

DatedDocs ==
    [k \in 1..MaxMatches |->
        {[PlayedDoc(k, <<"home">>, 0) EXCEPT !.date = date] : date \in Dates}]

DatedRanges == {<<>>, <<2, 2>>, <<2, 3>>}

InitDates == InitWith(Corpora(MaxMatches, DatedDocs))

NextDates ==
    \/ \E date_range \in DatedRanges :
          BuildStandingsTable("Todos", <<>>, date_range, <<>>, NoFilters)
    \/ \E team_name \in Teams, date_range \in DatedRanges :
          CalculateCompetitivenessIndex(team_name, <<>>, <<>>, "", date_range)
    \/ \E team_name \in Teams, date_range \in DatedRanges :
          GetMinutesPlayedByPlayer(team_name, <<>>, <<>>, "", date_range)

SpecDates == InitDates /\ [][NextDates]_vars

-----------------------------------------------------------------------------
(* SpecRequest: one call of _request on a client constructed with any      *)
(* max_retries up to MaxRetries, with or without OAuth, whose token may    *)
(* have expired.  SpecRequestLive adds that a call, once made, runs on:    *)
(* every step of it is a statement of one sequential method, each attempt  *)
(* is bounded by the timeout of line 170 and each pause by MaxDelay.       *)

InitRequest ==
    /\ InitCorpus({})
    /\ ClientAtRest(0..MaxRetries)
    /\ use_oauth \in BOOLEAN
    /\ token_valid \in BOOLEAN
    /\ InitStore

NextRequest ==
    \/ Request
    \/ \E replies \in TokenReplies : PrepareRequestHeaders(replies)
    \/ \E outcome \in SessionOutcomes : Attempt(outcome)
    \/ AfterLoop

SpecRequest == InitRequest /\ [][NextRequest]_vars

SpecRequestLive == SpecRequest /\ WF_vars(NextRequest)

-----------------------------------------------------------------------------
(* SpecStore: any sequence of downloads and automatic updates, starting    *)
(* without a file and without a cache                                      *)

InitStoreRuns ==
    /\ InitCorpus({})
    /\ InitClient
    /\ InitStore

NextStore ==
    \/ \E only_played \in BOOLEAN, incremental \in BOOLEAN, schedule \in ScheduleReplies, writable \in BOOLEAN :
          DownloadAllMatches(only_played, incremental, schedule, writable)
    \/ \E force \in BOOLEAN, stale \in BOOLEAN, schedule \in ScheduleReplies, writable \in BOOLEAN :
          AutoUpdateIfNeeded(force, stale, schedule, writable)

SpecStore == InitStoreRuns /\ [][NextStore]_vars

-----------------------------------------------------------------------------
(* Properties of the standings table *)

Called(name) == op = name

Rows == standings.rows

SumPJ(rows) ==
    LET RECURSIVE Sum(_)
        Sum(i) == IF i = 0 THEN 0 ELSE rows[i].PJ + Sum(i - 1)
    IN  Sum(Len(rows))

Extractable(d) ==
    {i \in 1..Len(d.matches) : extract_match_result(d.matches[i]) # NoResult}

Unfiltered ==
    /\ Called("build_standings_table")
    /\ args.match_type = "Todos"
    /\ args.top_n_range = <<>>
    /\ args.date_range = <<>>
    /\ args.rival_teams = <<>>
    /\ args.advanced_filters = NoFilters

\* C1: in every row of the standings table, whatever the venue mode, the
\* opponent restriction and the goal filters, Pts = 3*G + E and DG = GF - GC.
C1_PointsAndGoalDiff ==
    \A i \in 1..Len(Rows) :
        /\ Rows[i].Pts = 3 * Rows[i].G + Rows[i].E
        /\ Rows[i].DG = Rows[i].GF - Rows[i].GC

\* a table built under an opponent restriction and a goal filter with a row
\* that has wins, draws and a goal difference
C1_Witness ==
    /\ Called("build_standings_table")
    /\ args.advanced_filters.scored_first
    /\ args.rival_teams = <<"B", "C">>
    /\ \E i \in 1..Len(Rows) :
          Rows[i].G >= 1 /\ Rows[i].E >= 1 /\ Rows[i].DG >= 1

\* C2: in the unfiltered table (venue 'Todos', no date range, no opponent
\* restriction, no advanced filter) the PJ column adds up to twice the number
\* of matches for which extract_match_result returns a record.
C2_PlayedSumIsTwicePerMatch ==
    Unfiltered /\ standings.kind = "DataFrame"
        => SumPJ(Rows) = 2 * Cardinality(Extractable(data))

\* an unfiltered table over a corpus of which one document is not extractable
C2_Witness ==
    /\ Unfiltered
    /\ standings.kind = "DataFrame"
    /\ Len(data.matches) = 2
    /\ Cardinality(Extractable(data)) = 1
    /\ SumPJ(Rows) = 2

LexGE(r1, r2) ==
    \/ r1.Pts > r2.Pts
    \/ /\ r1.Pts = r2.Pts
       /\ \/ r1.DG > r2.DG
          \/ r1.DG = r2.DG /\ r1.GF >= r2.GF

\* C8: consecutive rows of the standings table are non-increasing in the key
\* (Pts, DG, GF) taken lexicographically, and Pos is 1, 2, ..., n from the
\* top row down, so that tied teams get distinct consecutive positions.
C8_SortedAndRanked ==
    \A i \in 1..Len(Rows) :
        /\ Rows[i].Pos = i
        /\ i < Len(Rows) => LexGE(Rows[i], Rows[i + 1])

\* three rows, the first two level on points and goals scored and apart on
\* goal difference, the top row being the team the fold met last
C8_Witness ==
    /\ Called("build_standings_table")
    /\ Len(Rows) = 3
    /\ Rows[1].Pts = Rows[2].Pts /\ Rows[1].GF = Rows[2].GF
    /\ Rows[1].DG > Rows[2].DG
    /\ Rows[1].Equipo = "C"
    /\ Rows[2].Pos = 2

-----------------------------------------------------------------------------
(* Properties of the goal-sequence analysis *)

Goals == match_result.goals

\* goal j comes no later than goal i when the goals are put in (period,
\* minute) order, goals level on both keeping their source order
NoLater(j, i) ==
    \/ Goals[j].periodId < Goals[i].periodId
    \/ /\ Goals[j].periodId = Goals[i].periodId
       /\ \/ Goals[j].timeMin < Goals[i].timeMin
          \/ Goals[j].timeMin = Goals[i].timeMin /\ j <= i

FirstGoal == CHOOSE i \in 1..Len(Goals) : \A j \in 1..Len(Goals) : NoLater(i, j)

ByTeam(i) == Goals[i].contestantId = TeamId[args.team_name]

\* the perspective team is behind once goal i has been scored
BehindAfter(i) ==
    Cardinality({j \in 1..Len(Goals) : NoLater(j, i) /\ ~ByTeam(j)})
        > Cardinality({j \in 1..Len(Goals) : NoLater(j, i) /\ ByTeam(j)})

\* the record's winner is not the opponent of the perspective team
NotLost ==
    \/ match_result.winner = "draw"
    \/ match_result.winner = "home" /\ args.team_name = match_result.home_team
    \/ match_result.winner = "away" /\ args.team_name = match_result.away_team

\* C6: with a non-empty goal list exactly one of scored_first and
\* conceded_first is true, scored_first when the first goal in (period,
\* minute) order is the perspective team's; with no goal, scored_first,
\* conceded_first and comeback are all false.
C6_FirstGoalFlags ==
    Called("analyze_match_goals") =>
        IF Goals # <<>>
        THEN /\ goal_flags.scored_first # goal_flags.conceded_first
             /\ goal_flags.scored_first = ByTeam(FirstGoal)
        ELSE goal_flags = NoFlags

\* the goal listed first is not the earliest one, and the earliest one is the
\* perspective team's
C6_Witness ==
    /\ Called("analyze_match_goals")
    /\ Len(Goals) >= 2
    /\ FirstGoal # 1
    /\ ~ByTeam(1)
    /\ goal_flags.scored_first
    /\ ~goal_flags.conceded_first

\* the perspective team goes 0-1 down and the match ends 2-1 for it
DownThenWins ==
    /\ Len(Goals) = 3
    /\ ~ByTeam(FirstGoal)
    /\ Cardinality({j \in 1..3 : ByTeam(j)}) = 2
    /\ IF args.team_name = match_result.home_team
       THEN match_result.home_goals = 2 /\ match_result.away_goals = 1
       ELSE match_result.away_goals = 2 /\ match_result.home_goals = 1

\* C7: comeback is true only if the team conceded the first goal, was behind
\* at some point of the ordered replay and the record's winner makes the
\* match a win or a draw for it; going 0-1 down and winning 2-1 gives
\* conceded_first and comeback; scored_first excludes comeback.
C7_Comeback ==
    Called("analyze_match_goals") =>
        /\ goal_flags.comeback =>
              /\ goal_flags.conceded_first
              /\ \E i \in 1..Len(Goals) : BehindAfter(i)
              /\ NotLost
        /\ DownThenWins => goal_flags.conceded_first /\ goal_flags.comeback
        /\ goal_flags.scored_first => ~goal_flags.comeback

\* 0-1 down, then 2-1 up, the goals listed out of order
C7_Witness ==
    /\ Called("analyze_match_goals")
    /\ DownThenWins
    /\ FirstGoal # 1
    /\ goal_flags.comeback

-----------------------------------------------------------------------------
(* Properties of the opponent restriction *)

AsSet(list) == {list[i] : i \in 1..Len(list)}

\* the table of the same call without a position range
WithoutRange ==
    build_standings_table(data, args.match_type, <<>>, args.date_range,
                          args.rival_teams, args.advanced_filters)

\* the table of the call with no filter at all
UnfilteredTable ==
    build_standings_table(data, "Todos", <<>>, <<>>, <<>>, NoFilters)

RankedWithin(table, top_n_range) ==
    {table.rows[i].Equipo : i \in {j \in 1..Len(table.rows) :
        top_n_range[1] <= table.rows[j].Pos /\ table.rows[j].Pos <= top_n_range[2]}}

\* C9: when a non-empty list of rivals and a position range are both given,
\* the restriction applied is the list of rivals and the table is the one
\* the call returns without the position range.
C9_RivalsOverrideRange ==
    Called("build_standings_table") /\ args.rival_teams # <<>>
    /\ args.top_n_range # <<>>
        => /\ standings = WithoutRange
           /\ ~top_teams_list.isNone => top_teams_list.list = args.rival_teams

\* rivals and a range that names other teams, and a table with a counted match
C9_Witness ==
    /\ Called("build_standings_table")
    /\ args.rival_teams = <<"A">>
    /\ args.top_n_range = <<2, 3>>
    /\ top_teams_list = [isNone |-> FALSE, list |-> <<"A">>]
    /\ RankedWithin(UnfilteredTable, args.top_n_range) = {"B", "C"}
    /\ standings.kind = "DataFrame"
    /\ SumPJ(Rows) > 0

\* C10: a position range given without rivals resolves to the teams whose Pos
\* lies in [min, max] in the table of all extractable matches under venue
\* 'Todos' with no date, red-card, opponent or goal filter, whatever venue
\* mode, date range and advanced filters the call itself carries.
C10_RangeResolvedOnUnfilteredTable ==
    Called("build_standings_table") /\ args.top_n_range # <<>>
    /\ args.rival_teams = <<>> /\ Extractable(data) # {}
        => /\ ~top_teams_list.isNone
           /\ AsSet(top_teams_list.list)
                 = RankedWithin(UnfilteredTable, args.top_n_range)

\* a range resolved under home-only mode, a date range and a match filter,
\* where the table of the filtered matches ranks other teams in the range
C10_Witness ==
    /\ Called("build_standings_table")
    /\ args.top_n_range = <<1, 2>>
    /\ args.rival_teams = <<>>
    /\ args.match_type = "Local"
    /\ args.date_range # <<>>
    /\ args.advanced_filters.no_red_cards
    /\ standings.kind = "DataFrame"
    /\ Cardinality(AsSet(top_teams_list.list)) = 2
    /\ AsSet(top_teams_list.list)
          # RankedWithin(build_standings_table(data, args.match_type, <<>>,
                             args.date_range, <<>>, args.advanced_filters),
                         args.top_n_range)

-----------------------------------------------------------------------------
(* Properties of extraction *)

Doc == data.matches[args.match]

\* the document is not marked 'Played' or lacks matchInfo or matchDetails
Unusable(match) ==
    \/ ~match.matchInfo
    \/ ~match.liveData \/ ~match.matchDetails
    \/ match.matchStatus # "Played"

Without(d, Dropped(_)) ==
    [d EXCEPT !.matches = SelectSeq(d.matches, LAMBDA m : ~Dropped(m))]

StandingsOn(d) ==
    BuildStandings(d, args.match_type, args.top_n_range, args.date_range,
                   args.rival_teams, args.advanced_filters)

PlayerRecordsOn(d) ==
    IF ~d.hasMatches THEN <<>>
    ELSE PlayerMatchRecords(d.matches, args.team_name, args.include_players,
                            args.exclude_players, args.manager, args.date_range)

\* C3: extract_match_result returns a record only for a document marked
\* 'Played' that has its matchInfo and matchDetails blocks, and nothing
\* otherwise; the standings table and the player records are those of the
\* corpus with every other document taken out.
C3_OnlyPlayedIsExtracted ==
    /\ Called("extract_match_result") /\ Unusable(Doc)
           => match_result = NoResult
    /\ Called("build_standings_table")
           => /\ standings = StandingsOn(Without(data, Unusable)).standings
              /\ \A i \in 1..Len(data.matches) :
                     Unusable(data.matches[i])
                         => extract_match_result(data.matches[i]) = NoResult
    /\ Called("calculate_competitiveness_index")
           => player_match_records = PlayerRecordsOn(Without(data, Unusable))

C3_Witness ==
    /\ Called("extract_match_result")
    /\ Doc.matchInfo /\ Doc.liveData /\ Doc.matchDetails
    /\ Doc.matchStatus = "Playing"
    /\ Doc.scores.present /\ Doc.goal # <<>>
    /\ match_result = NoResult

Unresolved(match) ==
    LET positions == {match.contestant[i].position :
                          i \in 1..Len(match.contestant)}
    IN  "home" \notin positions \/ "away" \notin positions

\* C4: extract_match_result returns nothing for a document whose home or
\* away contestant carries no position tag, every record it returns names
\* both teams, and no row of the standings table is that of a missing team.
C4_UnresolvedTeamYieldsNothing ==
    /\ Called("extract_match_result") /\ Unresolved(Doc)
           => match_result = NoResult
    /\ Called("extract_match_result") /\ match_result # NoResult
           => match_result.home_team # None /\ match_result.away_team # None
    /\ Called("build_standings_table")
           => \A i \in 1..Len(Rows) : Rows[i].Equipo # None

ScoreMissing(match) == ~match.scores.present

\* C5: extract_match_result returns nothing for a document marked 'Played'
\* that has no score block, and the standings table is that of the corpus
\* with every such document taken out.
C5_MissingScoreExcluded ==
    /\ Called("extract_match_result") /\ ~Unusable(Doc) /\ ScoreMissing(Doc)
           => match_result = NoResult
    /\ Called("build_standings_table")
           => standings = StandingsOn(Without(data, ScoreMissing)).standings

-----------------------------------------------------------------------------
(* Properties of the filters evaluated from each team's side of a match *)

Res(i) == extract_match_result(data.matches[i])

HomeIdx(team) == {i \in Extractable(data) : Res(i).home_team = team}

AwayIdx(team) == {i \in Extractable(data) : Res(i).away_team = team}

\* the opponent is in the restriction the call resolved, if it resolved one
OpponentOK(opponent) ==
    top_teams_list.isNone \/ In(top_teams_list.list, opponent)

GoalFilterOK(i, team) ==
    ShouldCount(args.advanced_filters, analyze_match_goals(Res(i), team))

\* the goals of one side summed over the matches of S
RECURSIVE SumGoals(_, _)
SumGoals(S, side) ==
    IF S = {} THEN 0
    ELSE LET i == CHOOSE j \in S : TRUE
         IN  (IF side = "home" THEN Res(i).home_goals ELSE Res(i).away_goals)
             + SumGoals(S \ {i}, side)

\* the figures of a team counted by hand: H the matches counted for it as
\* the home side, A those counted for it as the away side
Tally(H, A) ==
    [PJ |-> Cardinality(H) + Cardinality(A),
     G |-> Cardinality({i \in H : Res(i).winner = "home"})
           + Cardinality({i \in A : Res(i).winner = "away"}),
     E |-> Cardinality({i \in H \cup A : Res(i).winner = "draw"}),
     P |-> Cardinality({i \in H : Res(i).winner = "away"})
           + Cardinality({i \in A : Res(i).winner = "home"}),
     GF |-> SumGoals(H, "home") + SumGoals(A, "away"),
     GC |-> SumGoals(H, "away") + SumGoals(A, "home")]

Figures(row) ==
    [PJ |-> row.PJ, G |-> row.G, E |-> row.E, P |-> row.P,
     GF |-> row.GF, GC |-> row.GC]

NoOtherFilter ==
    /\ args.top_n_range = <<>> /\ args.rival_teams = <<>>
    /\ args.date_range = <<>> /\ args.advanced_filters = NoFilters

\* C11: in home-only mode the figures of every row are those of the matches
\* the team played at home (that pass the opponent and goal filters from its
\* side), in away-only mode those of the matches it played away; with no
\* other filter the sum of PJ is the number of extractable matches.
C11_VenuePerTeam ==
    Called("build_standings_table") /\ args.match_type \in {"Local", "Visitante"}
    => /\ \A r \in 1..Len(Rows) :
             LET team == Rows[r].Equipo
                 at_home == {i \in HomeIdx(team) :
                                OpponentOK(Res(i).away_team) /\ GoalFilterOK(i, team)}
                 away == {i \in AwayIdx(team) :
                             OpponentOK(Res(i).home_team) /\ GoalFilterOK(i, team)}
             IN  Figures(Rows[r]) = IF args.match_type = "Local"
                                    THEN Tally(at_home, {})
                                    ELSE Tally({}, away)
       /\ NoOtherFilter /\ standings.kind = "DataFrame"
             => SumPJ(Rows) = Cardinality(Extractable(data))

\* home-only mode over two matches: one side was at home twice, another was
\* only ever away and keeps a row with nothing counted
C11_Witness ==
    /\ Called("build_standings_table") /\ args.match_type = "Local"
    /\ NoOtherFilter
    /\ Cardinality(Extractable(data)) = 2
    /\ \E r \in 1..Len(Rows) : Rows[r].Equipo = "A" /\ Rows[r].PJ = 1
                                /\ AwayIdx("A") # {}
    /\ \E r \in 1..Len(Rows) : Rows[r].Equipo = "B" /\ Rows[r].PJ = 0

\* C12: under an opponent restriction a match counts for a team only when
\* the team's opponent in that match is in the restriction: the figures of
\* every row are those of the matches the venue mode admits whose opponent is
\* in the restriction, so in mode 'Todos' a match between a team in the
\* restriction and one outside it counts for the one outside alone.
C12_OpponentPerTeam ==
    Called("build_standings_table") /\ ~top_teams_list.isNone
    => /\ \A r \in 1..Len(Rows) :
             LET team == Rows[r].Equipo
                 at_home == {i \in HomeIdx(team) :
                                /\ args.match_type \in {"Todos", "Local"}
                                /\ In(top_teams_list.list, Res(i).away_team)
                                /\ GoalFilterOK(i, team)}
                 away == {i \in AwayIdx(team) :
                             /\ args.match_type \in {"Todos", "Visitante"}
                             /\ In(top_teams_list.list, Res(i).home_team)
                             /\ GoalFilterOK(i, team)}
             IN  Figures(Rows[r]) = Tally(at_home, away)
       /\ args.match_type = "Todos" /\ args.advanced_filters = NoFilters
             => \A i \in Extractable(data), r \in 1..Len(Rows) :
                   LET home_in == In(top_teams_list.list, Res(i).home_team)
                       away_in == In(top_teams_list.list, Res(i).away_team)
                   IN  /\ Cardinality(Extractable(data)) = 1 /\ home_in /\ ~away_in
                          => Rows[r].PJ = IF Rows[r].Equipo = Res(i).away_team
                                          THEN 1 ELSE 0
                       /\ Cardinality(Extractable(data)) = 1 /\ away_in /\ ~home_in
                          => Rows[r].PJ = IF Rows[r].Equipo = Res(i).home_team
                                          THEN 1 ELSE 0

\* mode 'Todos', rivals [A]: A beat B at home, and the match counts for B alone
C12_Witness ==
    /\ Called("build_standings_table") /\ args.match_type = "Todos"
    /\ args.rival_teams = <<"A">> /\ args.advanced_filters = NoFilters
    /\ Extractable(data) = {1}
    /\ Len(Rows) = 2
    /\ \E r \in 1..Len(Rows) : Rows[r].Equipo = "B" /\ Rows[r].PJ = 1
                                /\ Rows[r].P = 1
    /\ \E r \in 1..Len(Rows) : Rows[r].Equipo = "A" /\ Rows[r].PJ = 0

-----------------------------------------------------------------------------
(* Properties of the percentages *)

\* C13: a row of the standings table with PJ = 0 has %Pts = 0 and no row
\* carries a division by zero; calculate_team_stats_with_players returns
\* points_percentage = 0 when total_matches = 0, and never a division by zero.
C13_ZeroPlayedZeroPercent ==
    /\ Called("build_standings_table")
           => \A r \in 1..Len(Rows) :
                 /\ Rows[r].PctPts # ZeroDivisionError
                 /\ Rows[r].PJ = 0 => Rows[r].PctPts = 0
    /\ Called("calculate_team_stats_with_players")
           => /\ filtered_stats.points_percentage # ZeroDivisionError
              /\ filtered_stats.total_matches = 0
                     => filtered_stats.points_percentage = 0

\* home-only mode: the away side of the only match keeps a row with PJ = 0
C13_Witness ==
    /\ Called("build_standings_table") /\ args.match_type = "Local"
    /\ Len(Rows) = 2
    /\ \E r \in 1..Len(Rows) : Rows[r].PJ = 0 /\ Rows[r].PctPts = 0
    /\ \E r \in 1..Len(Rows) : Rows[r].PJ = 1 /\ Rows[r].PctPts = 1000

-----------------------------------------------------------------------------
(* Properties of repeated calls *)

-----------------------------------------------------------------------------
(* Properties of the player-match records *)

Records == player_match_records

\* the match document a record was made from: the documents of a corpus
\* carry different dates
MatchOf(rec) ==
    data.matches[CHOOSE i \in 1..Len(data.matches) :
                     /\ extract_match_result(data.matches[i]) # NoResult
                     /\ data.matches[i].date = rec.match_date]

Timeline(rec) == get_goals_timeline(MatchOf(rec), args.team_name)

EndTime(rec) == get_match_end_time(MatchOf(rec), Timeline(rec))

\* the minutes the player came on and went off, the latter NoMinute if the
\* player stayed on
SegmentOf(rec) ==
    SelectSeq(get_player_segments_in_match(MatchOf(rec), args.team_name),
              LAMBDA seg : seg.player_name = rec.player_name)[1]

SegmentEnd(rec) ==
    IF SegmentOf(rec).min_end = NoMinute THEN EndTime(rec)
    ELSE SegmentOf(rec).min_end

\* goals for and against the team outside the minutes of the record
GoalsOutside(rec, mine) ==
    Cardinality({i \in 1..Len(Timeline(rec)) :
        /\ Timeline(rec)[i].is_team_goal = mine
        /\ \/ Timeline(rec)[i].timeMin < SegmentOf(rec).min_start
           \/ Timeline(rec)[i].timeMin > SegmentEnd(rec)})

\* C15: in a record whose player was on for the whole resolved length of the
\* match, without_points is undefined and diff_points is 0; in any other
\* record without_points is the 3, 1 or 0 points of the goals outside the
\* player's segment and diff_points = played_points - without_points. A
\* starter who is not taken off has diff_points = 0, and with his team
\* winning 2-0 his record has minutes_norm 1.0 and played_points =
\* total_points = 3.
C15_DiffPoints ==
    Called("calculate_competitiveness_index")
    => \A r \in 1..Len(Records) :
          LET rec == Records[r]
              minutes_without == EndTime(rec) - rec.minutes_played
              gf == GoalsOutside(rec, TRUE)
              gc == GoalsOutside(rec, FALSE)
              stayed_on == rec.is_starter /\ SegmentOf(rec).min_end = NoMinute
              two_nil == /\ Len(Timeline(rec)) = 2
                         /\ \A i \in 1..2 : Timeline(rec)[i].is_team_goal
          IN  /\ minutes_without = 0
                    => rec.without_points = NoPoints /\ rec.diff_points = 0
              /\ minutes_without # 0
                    => /\ rec.without_points \in {3, 1, 0}
                       /\ rec.without_points = 3 <=> gf > gc
                       /\ rec.without_points = 1 <=> gf = gc
                       /\ rec.diff_points = rec.played_points - rec.without_points
              /\ stayed_on => rec.diff_points = 0
              /\ stayed_on /\ two_nil
                    => /\ rec.minutes_norm = 90
                       /\ rec.played_points = 3
                       /\ rec.total_points = 3

\* a starter who stayed on in a 2-0 win
C15_Witness ==
    /\ Called("calculate_competitiveness_index")
    /\ \E r \in 1..Len(Records) :
          /\ Records[r].is_starter /\ Records[r].minutes_played = 90
          /\ Records[r].total_result = "win" /\ Records[r].played_gd = 2
          /\ Records[r].diff_points = 0 /\ Records[r].without_points = NoPoints
          /\ Records[r].minutes_norm = 90 /\ Records[r].played_points = 3

\* goals for and against the team from minute lo to minute hi, both included
GoalsBetween(rec, mine, lo, hi) ==
    Cardinality({i \in 1..Len(Timeline(rec)) :
        /\ Timeline(rec)[i].is_team_goal = mine
        /\ lo <= Timeline(rec)[i].timeMin /\ Timeline(rec)[i].timeMin <= hi})

\* C16: a player who did not start and came on at a minute m > 0 is
\* recorded as entering with the team winning, drawing or losing by the goals
\* up to minute m, and his played_gd and played_points are those of the goals
\* from minute m to the end of his segment; coming on at minute 70 with the
\* match level, the team then winning 2-1, he entered 'drawing'.
C16_SubstituteAtEntry ==
    Called("calculate_competitiveness_index")
    => \A r \in 1..Len(Records) :
          LET rec == Records[r]
              m == SegmentOf(rec).min_start
              gf_before == GoalsBetween(rec, TRUE, 0, m)
              gc_before == GoalsBetween(rec, FALSE, 0, m)
              gf_played == GoalsBetween(rec, TRUE, m, SegmentEnd(rec))
              gc_played == GoalsBetween(rec, FALSE, m, SegmentEnd(rec))
          IN  ~rec.is_starter /\ m > 0
              => /\ rec.sub_entry_situation =
                        IF gf_before > gc_before THEN "winning"
                        ELSE IF gf_before < gc_before THEN "losing"
                        ELSE "drawing"
                 /\ rec.played_gd = gf_played - gc_played
                 /\ rec.played_points = IF gf_played > gc_played THEN 3
                                        ELSE IF gf_played < gc_played THEN 0
                                        ELSE 1
                 /\ m = 70 /\ gf_before = 1 /\ gc_before = 1
                    /\ rec.total_result = "win" /\ Len(Timeline(rec)) = 3
                       => rec.sub_entry_situation = "drawing"

\* on at minute 70 at 1-1, the team wins 2-1 with a goal in added time
C16_Witness ==
    /\ Called("calculate_competitiveness_index")
    /\ \E r \in 1..Len(Records) :
          /\ ~Records[r].is_starter
          /\ SegmentOf(Records[r]).min_start = 70
          /\ GoalsBetween(Records[r], TRUE, 0, 69) = 1
          /\ GoalsBetween(Records[r], FALSE, 0, 69) = 1
          /\ GoalsBetween(Records[r], TRUE, 71, 95) = 1
          /\ Records[r].total_result = "win"
          /\ Records[r].sub_entry_situation = "drawing"
          /\ Records[r].played_gd = 1 /\ Records[r].played_points = 3

\* the roles a record falls in
RolesOf(rec) ==
    {role \in {"starter", "winning", "drawing", "losing"} :
        IF role = "starter" THEN rec.is_starter
        ELSE ~rec.is_starter /\ rec.sub_entry_situation = role}

RoleCells(row, role) ==
    IF role = "starter" THEN <<row.indice_titular, row.minutes_titular>>
    ELSE IF role = "winning"
    THEN <<row.indice_suplente_ganando, row.minutes_suplente_ganando>>
    ELSE IF role = "drawing"
    THEN <<row.indice_suplente_empatando, row.minutes_suplente_empatando>>
    ELSE <<row.indice_suplente_perdiendo, row.minutes_suplente_perdiendo>>

\* C17: every player-match record falls in exactly one of the four roles
\* (starter, substitute on while winning, drawing, losing), and a player
\* without a record in a role has no value, rather than zero, in the mean
\* index and the minute sum of that role.
C17_RolePartition ==
    Called("calculate_competitiveness_index")
    => /\ \A r \in 1..Len(Records) : Cardinality(RolesOf(Records[r])) = 1
       /\ \A p \in 1..Len(df_player.rows),
             role \in {"starter", "winning", "drawing", "losing"} :
             LET row == df_player.rows[p]
                 none == \A r \in 1..Len(Records) :
                             Records[r].player_name = row.player_name
                                 => role \notin RolesOf(Records[r])
             IN  /\ none <=> RoleCells(row, role)[1].isNaN
                 /\ none <=> RoleCells(row, role)[2].isNaN

-----------------------------------------------------------------------------
(* Properties of the date filters *)

RangeActive == args.date_range # <<>>

Within(date) ==
    args.date_range[1] <= date.day /\ date.day <= args.date_range[2]

\* the date is a calendar day, with or without the trailing zone marker
CalendarDate(date) == date.kind \in {"plain", "Z"}

AllCalendarDates ==
    \A i \in 1..Len(data.matches) : CalendarDate(data.matches[i].date)

OutsideRange(match) == ~Within(match.date)

\* the results of the three entry points with no date range at all
UndatedStandings(d) ==
    build_standings_table(d, args.match_type, args.top_n_range, <<>>,
                          args.rival_teams, args.advanced_filters)

UndatedRecords(d) ==
    IF ~d.hasMatches THEN <<>>
    ELSE PlayerMatchRecords(d.matches, args.team_name, args.include_players,
                            args.exclude_players, args.manager, <<>>)

UndatedMinutes(d) ==
    get_minutes_played_by_player(d, args.team_name, args.include_players,
                                 args.exclude_players, args.manager, <<>>)

\* C18: under a date range, in a corpus of calendar dates, the standings
\* table and the player records are those of the matches dated from the
\* start date to the end date, both included, and of no other match.
C18_RangeInclusive ==
    /\ Called("build_standings_table") /\ RangeActive /\ AllCalendarDates
           => standings = UndatedStandings(Without(data, OutsideRange))
    /\ Called("calculate_competitiveness_index") /\ RangeActive
         /\ AllCalendarDates
           => player_match_records =
                  UndatedRecords(Without(data, OutsideRange))

C18_Witness ==
    /\ Called("build_standings_table")
    /\ args.date_range = <<2, 3>>
    /\ Len(data.matches) = 2
    /\ data.matches[1].date = [kind |-> "Z", day |-> 3]
    /\ data.matches[2].date = [kind |-> "plain", day |-> 4]
    /\ Len(Rows) = 2
    /\ \A i \in 1..Len(Rows) : Rows[i].Equipo \in {"A", "B"} /\ Rows[i].PJ = 1

\* the date is one pd.to_datetime(format='%Y-%m-%d') turns down once the
\* standings path, respectively the player paths, have prepared it
FailsInStandings(date) == date.kind \notin {"plain", "Z"}

FailsInPlayerPaths(date) == date.kind \notin {"plain", "Z", "T"}

ParsedOutsideInStandings(match) ==
    ~FailsInStandings(match.date) /\ ~Within(match.date)

UnparsedOrOutsideInPlayerPaths(match) ==
    FailsInPlayerPaths(match.date) \/ ~Within(match.date)

\* C19: under a date range, the standings table counts every match whose
\* date fails to parse, whereas the player records and the minutes per
\* player leave every such match out.
C19_UnparsedDates ==
    /\ Called("build_standings_table") /\ RangeActive
           => standings = UndatedStandings(Without(data, ParsedOutsideInStandings))
    /\ Called("calculate_competitiveness_index") /\ RangeActive
           => player_match_records =
                  UndatedRecords(Without(data, UnparsedOrOutsideInPlayerPaths))
    /\ Called("get_minutes_played_by_player") /\ RangeActive
           => player_minutes =
                  UndatedMinutes(Without(data, UnparsedOrOutsideInPlayerPaths))

C19_Witness ==
    /\ Called("get_minutes_played_by_player")
    /\ args.team_name = "A"
    /\ args.date_range = <<2, 3>>
    /\ Len(data.matches) = 2
    /\ data.matches[1].date.kind = "bad"
    /\ data.matches[2].date = [kind |-> "T", day |-> 2]
    /\ player_minutes = << [player_name |-> "A1", minutes |-> 90],
                           [player_name |-> "A2", minutes |-> 30] >>

\* the score of the document from the side of the team asked for
FinalPoints(rec) ==
    LET scores == MatchOf(rec).scores
        is_home == MatchOf(rec).contestant[1].name = args.team_name
    IN  IF scores.home = scores.away THEN 1
        ELSE IF (scores.home > scores.away) = is_home THEN 3
        ELSE 0

-----------------------------------------------------------------------------
(* Properties of the segments *)

TheMatch == data.matches[args.match]

\* the substitutions recorded for the team asked for
OwnSubs ==
    {i \in 1..Len(TheMatch.substitute) :
        TheMatch.substitute[i].contestantId = TeamId[args.team_name]}

OnAt(player) == {i \in OwnSubs : TheMatch.substitute[i].playerOnId = player.playerId}

OffAt(player) == {i \in OwnSubs : TheMatch.substitute[i].playerOffId = player.playerId}

Latest(S) == CHOOSE i \in S : \A j \in S : j <= i

ExitMinute(player) ==
    IF OffAt(player) = {} THEN NoMinute
    ELSE TheMatch.substitute[Latest(OffAt(player))].timeMin

SegmentsNamed(name) ==
    {k \in 1..Len(team_segments) : team_segments[k].player_name = name}

\* C21: a starter of the team has one segment, from 0 to the minute the team
\* took the player off (left open if it never did); a player who did not
\* start has one segment from the minute the team brought the player on, and
\* none if it never did; no player has two segments and no segment is that
\* of anyone else.
C21_SegmentsOfTheTeam ==
    Called("get_player_segments_in_match") =>
        LET players == Players(args.team_name)
        IN  /\ \A p \in 1..Len(players) :
                  LET player == players[p]
                      mine == SegmentsNamed(player.matchName)
                  IN  /\ Cardinality(mine) <= 1
                      /\ player.gameStarted
                           => /\ mine # {}
                              /\ \A k \in mine :
                                    /\ team_segments[k].min_start = 0
                                    /\ team_segments[k].min_end = ExitMinute(player)
                      /\ ~player.gameStarted /\ OnAt(player) = {} => mine = {}
                      /\ ~player.gameStarted /\ OnAt(player) # {}
                           => /\ mine # {}
                              /\ \A k \in mine :
                                    /\ team_segments[k].min_start =
                                         TheMatch.substitute[Latest(OnAt(player))].timeMin
                                    /\ team_segments[k].min_end = ExitMinute(player)
            /\ \A k \in 1..Len(team_segments) :
                  \E p \in 1..Len(players) :
                      players[p].matchName = team_segments[k].player_name

\* the substitution list gives A2 for A1 at minute 60 to the other side and
\* at minute 97 to A: A1 plays from 0 to 97 and A2 from 97
C21_Witness ==
    /\ Called("get_player_segments_in_match") /\ args.team_name = "A"
    /\ Len(TheMatch.substitute) = 2
    /\ TheMatch.substitute[1].contestantId = TeamId["B"]
    /\ TheMatch.substitute[1].playerOnId = PlayerId["A2"]
    /\ TheMatch.substitute[1].timeMin = 60
    /\ team_segments =
          << [player_name |-> "A1", min_start |-> 0, min_end |-> 97],
             [player_name |-> "A2", min_start |-> 97, min_end |-> NoMinute] >>

\* the minutes a match document records: its goals and its substitutions
MinutesOf(match) ==
    {match.goal[i].timeMin : i \in 1..Len(match.goal)}
    \cup {match.substitute[i].timeMin : i \in 1..Len(match.substitute)}

LatestMinute(match) ==
    CHOOSE m \in MinutesOf(match) \cup {90} :
        \A n \in MinutesOf(match) \cup {90} : n <= m

\* C24: get_match_end_time is the largest of 90, the goal minutes and the
\* substitution minutes, so at least 90 and at least every minute a segment
\* starts or ends at; a record whose segment was left open counts the
\* minutes from its start to that end time, with 0 <= start <= end time.
C24_MatchEndTime ==
    /\ Called("get_match_end_time")
           => /\ end_time = LatestMinute(TheMatch)
              /\ end_time >= 90
              /\ \A team \in {"A", "B"} :
                    LET segments == get_player_segments_in_match(TheMatch, team)
                    IN  \A k \in 1..Len(segments) :
                            /\ segments[k].min_start <= end_time
                            /\ segments[k].min_end <= end_time
    /\ Called("calculate_competitiveness_index")
           => \A r \in 1..Len(Records) :
                  LET segment == SegmentOf(Records[r])
                      end == LatestMinute(MatchOf(Records[r]))
                  IN  segment.min_end = NoMinute
                          => /\ 0 <= segment.min_start
                             /\ segment.min_start <= end
                             /\ Records[r].minutes_played
                                    = end - segment.min_start

\* a substitution at minute 97 is the last event of a match with a goal at
\* minute 95
C24_Witness ==
    /\ Called("get_match_end_time")
    /\ TheMatch.goal # <<>>
    /\ \E i \in 1..Len(TheMatch.substitute) :
          TheMatch.substitute[i].timeMin = 97
    /\ end_time = 97

-----------------------------------------------------------------------------
(* Properties of the rows of the table *)

HasRow(team) == \E r \in 1..Len(Rows) : Rows[r].Equipo = team

\* the matches build_standings_table hands to calculate_team_stats
Folded ==
    {i \in Extractable(data) :
        /\ ~DroppedByDate(Res(i), args.date_range)
        /\ ~(args.advanced_filters.no_red_cards
             /\ match_has_red_cards(data.matches[i]))}

\* C22: the home team and the away team of every match handed to the
\* aggregator have a row in the table, whatever the venue mode, the opponent
\* restriction and the goal filters leave of the match for them.
C22_BothTeamsHaveARow ==
    Called("build_standings_table") /\ standings.kind = "DataFrame"
        => \A i \in Folded : HasRow(Res(i).home_team) /\ HasRow(Res(i).away_team)

\* the match passes the opponent test that precedes the registration of its
\* two teams
Registers(i) ==
    \/ top_teams_list.isNone
    \/ args.match_type = "Local" /\ In(top_teams_list.list, Res(i).away_team)
    \/ args.match_type = "Visitante" /\ In(top_teams_list.list, Res(i).home_team)
    \/ /\ args.match_type = "Todos"
       /\ \/ In(top_teams_list.list, Res(i).home_team)
          \/ In(top_teams_list.list, Res(i).away_team)

\* the places at which the fold meets a team: the home team of the i-th
\* match at 2i - 1, its away team at 2i
Encounters(team) ==
    {2 * i - 1 : i \in {j \in Folded : Registers(j) /\ Res(j).home_team = team}}
    \cup {2 * i : i \in {j \in Folded : Registers(j) /\ Res(j).away_team = team}}

FirstEncounter(team) ==
    CHOOSE n \in Encounters(team) : \A m \in Encounters(team) : n <= m

C27_EmptyTableWithoutRaising ==
    Called("build_standings_table") /\ {i \in Folded : Registers(i)} = {}
        => standings.kind = "DataFrame" /\ Rows = <<>>

-----------------------------------------------------------------------------
(* Properties of the goals at the minute of entry *)

Situation(gf, gc) ==
    IF gf > gc THEN "winning" ELSE IF gf < gc THEN "losing" ELSE "drawing"

\* the record is the one obtained when the goals up to minute upto decide
\* the entry situation and the goals from minute from on are those played
Attributes(rec, upto, from) ==
    LET gf_played == GoalsBetween(rec, TRUE, from, SegmentEnd(rec))
        gc_played == GoalsBetween(rec, FALSE, from, SegmentEnd(rec))
    IN  /\ rec.sub_entry_situation =
               Situation(GoalsBetween(rec, TRUE, 0, upto),
                         GoalsBetween(rec, FALSE, 0, upto))
        /\ rec.played_gd = gf_played - gc_played
        /\ rec.played_points = IF gf_played > gc_played THEN 3
                               ELSE IF gf_played < gc_played THEN 0
                               ELSE 1

\* C28: for a player who came on at a minute m > 0, the goals of minute m
\* count either toward the scoreline at entry or toward the goals played,
\* never toward both.
C28_EntryMinuteGoalCountedOnce ==
    Called("calculate_competitiveness_index")
    => \A r \in 1..Len(Records) :
          LET rec == Records[r]
              m == SegmentOf(rec).min_start
          IN  ~rec.is_starter /\ m > 0
              => \/ Attributes(rec, m, m + 1)
                 \/ Attributes(rec, m - 1, m)

-----------------------------------------------------------------------------
(* Comeback and the first goal *)

\* C29: comeback is true exactly when the team conceded the first goal and
\* the record's winner does not make the match a loss for it; having been
\* behind follows from having conceded the first goal.
C29_ComebackIsConcededFirstAndNotLost ==
    Called("analyze_match_goals") =>
        /\ goal_flags.comeback <=> (goal_flags.conceded_first /\ NotLost)
        /\ goal_flags.conceded_first => \E i \in 1..Len(Goals) : BehindAfter(i)

\* the only goal listed is the opponent's and the score block says draw
C29_Witness ==
    /\ Called("analyze_match_goals")
    /\ Len(Goals) = 1 /\ ~ByTeam(1)
    /\ match_result.winner = "draw"
    /\ goal_flags.conceded_first /\ goal_flags.comeback

-----------------------------------------------------------------------------
(* Properties of _request *)

Terminated == request_pc \in {"returned", "raised"}

\* the attempt met a connection error, a timeout or a 5xx response
Failed(outcome) ==
    \/ outcome.exc \in {"ConnectionError", "Timeout"}
    \/ outcome.exc = None /\ outcome.status_code >= 500

\* the error such an attempt leaves
ErrorOf(outcome) == IF outcome.exc = None THEN "HTTPError" ELSE outcome.exc

AllFailed(n) == \A k \in 1..n : Failed(tried[k])

\* the call returned the first response below 500, right after it came
ReturnedFirstBelow500 ==
    /\ request_pc = "returned"
    /\ attempt = Len(tried)
    /\ attempt \in 1..max_retries
    /\ AllFailed(attempt - 1)
    /\ tried[attempt].exc = None
    /\ tried[attempt].status_code < 500
    /\ resp = tried[attempt].status_code

\* the call raised the error of the last of max_retries failed attempts
RaisedLastOfMaxRetries ==
    /\ request_pc = "raised"
    /\ attempt = Len(tried)
    /\ attempt = max_retries
    /\ attempt >= 1
    /\ AllFailed(attempt)
    /\ raised = ErrorOf(tried[attempt])
    /\ resp = NoStatus

\* the call raised before any attempt: no token could be obtained
RaisedForToken ==
    /\ request_pc = "raised"
    /\ use_oauth
    /\ tried = <<>>
    /\ attempt = 0
    /\ raised = "TokenError"
    /\ resp = NoStatus

\* the call raised without an attempt: the client has no attempt to make
RaisedWithoutAttempts ==
    /\ request_pc = "raised"
    /\ max_retries = 0
    /\ tried = <<>>
    /\ raised = "AssertionError"
    /\ resp = NoStatus

\* the call raised at once an exception the loop does not catch
RaisedUncaught ==
    /\ request_pc = "raised"
    /\ attempt = Len(tried)
    /\ attempt \in 1..max_retries
    /\ AllFailed(attempt - 1)
    /\ tried[attempt].exc # None
    /\ ~Failed(tried[attempt])
    /\ raised = tried[attempt].exc
    /\ resp = NoStatus

RequestOutcomes ==
    /\ Len(tried) <= max_retries
    /\ attempt = Len(tried)
    /\ request_pc = "loop" => AllFailed(attempt)
    /\ Terminated =>
          \/ ReturnedFirstBelow500
          \/ RaisedLastOfMaxRetries
          \/ RaisedForToken
          \/ RaisedWithoutAttempts
          \/ RaisedUncaught

-----------------------------------------------------------------------------
(* Properties of the download and of the automatic update *)

\* the matches a file stores: the match ids of its documents
Stored(file) ==
    {file.matches[k].id : k \in {j \in 1..Len(file.matches) : file.matches[j].matchInfo}}

\* the step is a run of download_all_matches in incremental mode, called
\* directly or by auto_update_if_needed
IncrementalRun ==
    /\ op' \in {"download_all_matches", "auto_update_if_needed"}
    /\ args'.incremental
    /\ args'.downloaded

DownloadFailed == ~schedule_fetched \/ download_result.kind = "OSError"

\* C30: 'no_new_matches' is reported only when the schedule was obtained
\* and every match it lists is stored, and a failed download step is
\* reported as updated = False with reason 'error'
C30_FailureReportedAsError ==
    (op = "auto_update_if_needed" /\ args.downloaded) =>
        /\ update_result.reason = "no_new_matches" =>
               (schedule_fetched /\ args.listed \subseteq Stored(output_file))
        /\ DownloadFailed =>
               (~update_result.updated /\ update_result.reason = "error")

====
